---- MODULE Spec2Model ----
(***************************************************************************)
(* fjord: a validation engine.  A rule chain (FjordHandler, handlers.ts)   *)
(* is built fluently by a kind factory and constraint builders; validate   *)
(* (FjordInstance.validateRules, index.ts) walks a list of field           *)
(* declarations over a root object, running hooks, defaults, transforms    *)
(* and the chain's rules.                                                  *)
(*                                                                         *)
(*   Spec         one validate call, one step per awaited stage            *)
(*   SpecChain    one rule chain: factory, builder calls, then check       *)
(*   SpecThrow    one validate call whose hooks, transforms, rules throw   *)
(*   SpecAdapter  one request through the connect, koa or graphql adapter  *)
(*   SpecTransform one validate call with global and per-rule transforms  *)
(*   SpecPath     one validate call on roots with nested, partly absent    *)
(*                paths                                                    *)
(*   SpecAgain    validate called again on a root it accepted              *)
(*   SpecHook     one validate call whose before hook assigns the field    *)
(*   SpecConc     two validate calls interleaved at their awaits           *)
(***************************************************************************)
EXTENDS Integers, Sequences, FiniteSets, TLC

VARIABLES
    options,    \* FjordInstance.options: the global transforms
    decls,      \* the `rules` argument of validate: the field declarations
    root,       \* the caller's root object, mutated in place
    call,       \* the running validateRules call: position, locals, event log
    handler,    \* SpecChain: the chain under construction
    checked,    \* SpecChain: the outcome of the last check(value) on handler
    io,         \* SpecAdapter: the adapter's request and what it called
    peer        \* SpecConc: the other validate call on the same engine

vars == <<options, decls, root, call, handler, checked, io, peer>>

(***************************************************************************)
(* JavaScript values.  Every value is a record of one shape so that any    *)
(* two can be compared: t is the typeof-like tag, n a number (or the       *)
(* identity of an object or array), s the characters of a string, a the    *)
(* members of an array.                                                    *)
(***************************************************************************)
Undef == [t |-> "undefined", n |-> 0, s |-> <<>>, a |-> <<>>]
Null == [t |-> "null", n |-> 0, s |-> <<>>, a |-> <<>>]
True == [t |-> "boolean", n |-> 1, s |-> <<>>, a |-> <<>>]
False == [t |-> "boolean", n |-> 0, s |-> <<>>, a |-> <<>>]
Num(k) == [t |-> "number", n |-> k, s |-> <<>>, a |-> <<>>]
Str(chars) == [t |-> "string", n |-> 0, s |-> chars, a |-> <<>>]
Arr(id, members) == [t |-> "array", n |-> id, s |-> <<>>, a |-> members]
Obj(id) == [t |-> "object", n |-> id, s |-> <<>>, a |-> <<>>]
\* a default given as a function of the root: n names the function
Fn(id) == [t |-> "function", n |-> id, s |-> <<>>, a |-> <<>>]
\* the outcome of a call that threw instead of returning
Thrown == [t |-> "thrown", n |-> 0, s |-> <<>>, a |-> <<>>]

\* k + 0.5, Infinity and NaN: numbers that are not whole
Half(k) == [t |-> "number", n |-> k, s |-> <<"half">>, a |-> <<>>]
Infinity == [t |-> "number", n |-> 0, s |-> <<"inf">>, a |-> <<>>]
NaN == [t |-> "number", n |-> 0, s |-> <<"nan">>, a |-> <<>>]

Bool(b) == IF b THEN True ELSE False

\* JavaScript truthiness, as used by `cond || err || false`
Truthy(v) ==
    CASE v.t = "undefined" -> FALSE
      [] v.t = "null" -> FALSE
      [] v.t = "thrown" -> FALSE
      [] v.t = "boolean" -> v.n = 1
      [] v.t = "number" -> v.s # <<"nan">> /\ (v.n # 0 \/ v.s # <<>>)
      [] v.t = "string" -> v.s # <<>>
      [] OTHER -> TRUE

\* a || b
Or(a, b) == IF Truthy(a) THEN a ELSE b

\* a === b: objects and arrays compare by identity (n), NaN equals nothing
StrictEquals(a, b) == a = b /\ a # NaN

\* twice the value of a finite number, so that k + 0.5 stays an integer
Twice(v) == 2 * v.n + (IF v.s = <<"half">> THEN 1 ELSE 0)

\* a >= b on numbers: false when either side is NaN
Geq(a, b) ==
    CASE a.s = <<"nan">> \/ b.s = <<"nan">> -> FALSE
      [] a.s = <<"inf">> -> TRUE
      [] b.s = <<"inf">> -> FALSE
      [] OTHER -> Twice(a) >= Twice(b)

isString(v) == v.t = "string"
isBoolean(v) == v.t = "boolean"
isNumber(v) == v.t = "number"
\* Number.isInteger: a finite number without fractional part
isInteger(v) == v.t = "number" /\ v.s = <<>>
\* Number(v) === v && v % 1 !== 0: Infinity % 1 is NaN, which is !== 0
isFloat(v) == v.t = "number" /\ v.s \in {<<"half">>, <<"inf">>}
\* typeof v == "object" && v !== null: arrays are objects
isObject(v) == v.t \in {"object", "array"}
isArray(v) == v.t = "array"

\* v.length: Thrown on null and undefined, Undef where there is no such property
Length(v) ==
    CASE v.t \in {"undefined", "null"} -> Thrown
      [] v.t = "string" -> Num(Len(v.s))
      [] v.t = "array" -> Num(Len(v.a))
      [] OTHER -> Undef

\* x >= len and x <= len where x is v.length: undefined compares false
LengthAtLeast(v, len) ==
    LET x == Length(v)
    IN  IF x = Thrown THEN Thrown
        ELSE Bool(x.t = "number" /\ len.t = "number" /\ Geq(x, len))

LengthAtMost(v, len) ==
    LET x == Length(v)
    IN  IF x = Thrown THEN Thrown
        ELSE Bool(x.t = "number" /\ len.t = "number" /\ Geq(len, x))

\* the decimal digits of a natural number
RECURSIVE Digits(_)
Digits(k) ==
    LET d == <<"0", "1", "2", "3", "4", "5", "6", "7", "8", "9">>[(k % 10) + 1]
    IN  IF k < 10 THEN <<d>> ELSE Digits(k \div 10) \o <<d>>

\* String(v) for the scalars, as a sequence of characters
JsString(v) ==
    CASE v.t = "string" -> v.s
      [] v.t = "undefined" -> <<"u", "n", "d", "e", "f", "i", "n", "e", "d">>
      [] v.t = "null" -> <<"n", "u", "l", "l">>
      [] v.t = "boolean" ->
            IF v.n = 1 THEN <<"t", "r", "u", "e">> ELSE <<"f", "a", "l", "s", "e">>
      [] v.t = "number" /\ v.s = <<"nan">> -> <<"N", "a", "N">>
      [] v.t = "number" /\ v.s = <<"inf">> ->
            <<"I", "n", "f", "i", "n", "i", "t", "y">>
      [] v.t = "number" ->
            (IF v.n < 0 THEN <<"-">> \o Digits(-v.n) ELSE Digits(v.n))
                \o (IF v.s = <<"half">> THEN <<".", "5">> ELSE <<>>)
      [] OTHER -> <<"[", "o", "b", "j", "e", "c", "t", "]">>

\* regex.test(v) for the regex of one literal character: it occurs in String(v)
RegexTest(regex, v) ==
    LET str == JsString(v)
    IN  \E k \in 1..Len(str) : <<str[k]>> = regex.s

\* the caller predicates given to every/some, named by a threshold: i => i > k
Predicate(k, i) == i.t = "number" /\ ~Geq(k, i)

\* the caller functions given to custom, named by a string
CustomResult(func, v) ==
    CASE func = Str(<<"even">>) ->
            \* i => i % 2 == 0
            Bool(v.t = "number" /\ v.s = <<>> /\ v.n % 2 = 0)
      [] func = Str(<<"taken">>) ->
            \* v => v is known ? "Email already signed up" : true
            IF v = Str(<<"a">>) THEN Str(<<"taken">>) ELSE True
      [] func = Str(<<"code">>) ->
            \* v => v < 5 ? true : 0, a failure reported as the number 0
            IF v.t = "number" /\ ~Geq(v, Num(5)) THEN True ELSE Num(0)
      [] OTHER -> Thrown

(***************************************************************************)
(* Rules.  A rule is the closure a builder pushed: op names its condition, *)
(* arg is the captured val/len/regex/func and err the captured payload    *)
(* (Undef when the caller gave none).                                      *)
(***************************************************************************)
Rule(op, arg, err) == [op |-> op, arg |-> arg, err |-> err]

ArrayOps ==
    {"includes", "strings", "numbers", "integers", "floats", "arrays",
     "objects", "every", "some"}

\* the conditions of the array builders; calling an array method on a value
\* that is no array throws (unreachable behind the array type check)
ArrayCondition(op, arg, v) ==
    IF ~isArray(v) THEN Thrown
    ELSE CASE op = "includes" -> Bool(\E k \in 1..Len(v.a) : v.a[k] = arg)
           [] op = "strings" -> Bool(\A k \in 1..Len(v.a) : isString(v.a[k]))
           [] op = "numbers" -> Bool(\A k \in 1..Len(v.a) : isNumber(v.a[k]))
           [] op = "integers" -> Bool(\A k \in 1..Len(v.a) : isInteger(v.a[k]))
           [] op = "floats" -> Bool(\A k \in 1..Len(v.a) : isFloat(v.a[k]))
           [] op = "arrays" -> Bool(\A k \in 1..Len(v.a) : isArray(v.a[k]))
           [] op = "objects" -> Bool(\A k \in 1..Len(v.a) : isObject(v.a[k]))
           [] op = "every" ->
                Bool(\A k \in 1..Len(v.a) : Predicate(arg, v.a[k]))
           [] op = "some" ->
                Bool(\E k \in 1..Len(v.a) : Predicate(arg, v.a[k]))

\* the condition left of `|| err || false`
Condition(op, arg, v) ==
    CASE op = "isString" -> Bool(isString(v))
      [] op = "isBoolean" -> Bool(isBoolean(v))
      [] op = "isNumber" -> Bool(isNumber(v))
      [] op = "isInteger" -> Bool(isInteger(v))
      [] op = "isFloat" -> Bool(isFloat(v))
      [] op = "isArray" -> Bool(isArray(v))
      [] op = "isObject" -> Bool(isObject(v))
      [] op = "isDefined" -> Bool(v # Undef)
      [] op = "equals" -> Bool(StrictEquals(v, arg))
      [] op = "minLength" -> LengthAtLeast(v, arg)
      [] op = "maxLength" -> LengthAtMost(v, arg)
      [] op = "matches" -> Bool(RegexTest(arg, v))
      [] op = "true" -> Bool(Truthy(v))
      [] op = "false" -> Bool(~Truthy(v))
      [] op = "min" -> Bool(isNumber(v) /\ Geq(v, arg))
      [] op = "max" -> Bool(isNumber(v) /\ Geq(arg, v))
      [] op \in ArrayOps -> ArrayCondition(op, arg, v)
      [] OTHER -> Thrown

\* async v => cond || err || false; a custom rule is the caller's function
RuleResult(rule, v) ==
    IF rule.op = "custom" THEN CustomResult(rule.arg, v)
    ELSE LET cond == Condition(rule.op, rule.arg, v)
         IN  IF cond = Thrown THEN Thrown ELSE Or(Or(cond, rule.err), False)

(***************************************************************************)
(* Rule chains (FjordHandler and its subclasses).  class names the         *)
(* subclass, which decides the builder methods the chain offers.  calls    *)
(* is history, not program state: the factory call and every method call   *)
(* made on the chain, with their arguments.                                *)
(***************************************************************************)
MethodCall(m, arg, err) == [m |-> m, arg |-> arg, err |-> err]

\* FjordHandler's fields as initialised: rules = [], m_optional = false
FjordHandler(class) ==
    [class |-> class, rules |-> <<>>, m_optional |-> FALSE, m_default |-> Undef,
     calls |-> <<>>]

\* rules.unshift(rule): the rule put in front of the chain
PushInFront(h, rule) == [h EXCEPT !.rules = <<rule>> \o @]

\* rules.push(rule)
Push(h, rule) == [h EXCEPT !.rules = Append(@, rule)]

FjordString(err) == Push(FjordHandler("FjordString"), Rule("isString", Undef, err))
FjordBoolean(err) == Push(FjordHandler("FjordBoolean"), Rule("isBoolean", Undef, err))
FjordNumber(err) == Push(FjordHandler("FjordNumber"), Rule("isNumber", Undef, err))
FjordInteger(err) ==
    Push([FjordNumber(err) EXCEPT !.class = "FjordInteger"],
         Rule("isInteger", Undef, err))
FjordFloat(err) ==
    Push([FjordNumber(err) EXCEPT !.class = "FjordFloat"],
         Rule("isFloat", Undef, err))
FjordArray(err) == Push(FjordHandler("FjordArray"), Rule("isArray", Undef, err))
FjordObject(err) == Push(FjordHandler("FjordObject"), Rule("isObject", Undef, err))
FjordAny(err) == Push(FjordHandler("FjordAny"), Rule("isDefined", Undef, err))

\* the builder methods of each class
Methods(class) ==
    CASE class = "FjordString" -> {"equals", "custom", "min", "max", "matches"}
      [] class = "FjordBoolean" -> {"custom", "equals", "true", "false"}
      [] class \in {"FjordNumber", "FjordInteger", "FjordFloat"} ->
            {"equals", "custom", "min", "max"}
      [] class = "FjordArray" ->
            {"custom", "min", "max", "includes", "contains", "strings",
             "numbers", "integers", "floats", "arrays", "objects", "every",
             "some", "all", "any"}
      [] class = "FjordObject" -> {"custom"}
      [] class = "FjordAny" -> {"equals", "custom"}

\* any delegating to every instead of some
ConditionOfAnyAsEvery(class, m) ==
    CASE m = "min" /\ class \in {"FjordString", "FjordArray"} -> "minLength"
      [] m = "max" /\ class \in {"FjordString", "FjordArray"} -> "maxLength"
      [] m = "contains" -> "includes"
      [] m \in {"all", "any"} -> "every"
      [] OTHER -> m

\* the condition of the rule a builder method pushes: min and max measure the
\* length on strings and arrays, contains/all/any delegate to includes/every/some
ConditionOf(class, m) ==
    CASE m = "min" /\ class \in {"FjordString", "FjordArray"} -> "minLength"
      [] m = "max" /\ class \in {"FjordString", "FjordArray"} -> "maxLength"
      [] m = "contains" -> "includes"
      [] m = "all" -> "every"
      [] m = "any" -> "some"
      [] OTHER -> m

\* a builder method: this.rules.push(...); return this
\* custom(func) pushes func itself and takes no payload
Builder(h, m, arg, err) ==
    [Push(h, Rule(ConditionOf(h.class, m), arg, IF m = "custom" THEN Undef ELSE err))
        EXCEPT !.calls = Append(@, MethodCall(m, arg, err))]

\* of giving a new array chain instead of the chain itself
ofNewChain(h) == [FjordArray(Undef) EXCEPT !.calls = h.calls]

\* of = this: the element view of an array chain is the chain itself
of(h) == h

\* the element-kind builders, and the name each is recorded under in calls when
\* it is reached through of
ElementKinds == {"strings", "numbers", "integers", "floats", "arrays", "objects"}

ViaOf ==
    [strings |-> "of.strings", numbers |-> "of.numbers", integers |-> "of.integers",
     floats |-> "of.floats", arrays |-> "of.arrays", objects |-> "of.objects"]

\* optional(): this.m_optional = true; return this
optional(h) ==
    [h EXCEPT !.m_optional = TRUE,
              !.calls = Append(@, MethodCall("optional", Undef, Undef))]

\* default(value): this.m_default = value; return this
default(h, value) ==
    [h EXCEPT !.m_default = value,
              !.calls = Append(@, MethodCall("default", value, Undef))]

isOptional(h) == h.m_optional

\* hasDefault answering yes for every chain
hasDefaultAlways(h) == TRUE

hasDefault(h) == h.m_default # Undef

\* the functions given to default: Fn(1) is root => root.a, Fn(2) is () => 7
DefaultFunction(f, r) == IF f.n = 1 THEN r["a"] ELSE Num(7)

\* getDefault(root): the default, a function default applied to the root
getDefault(h, r) ==
    IF h.m_default # Undef
    THEN IF h.m_default.t = "function" THEN DefaultFunction(h.m_default, r)
         ELSE h.m_default
    ELSE Undef

\* check as it would be without the early return: every rule is run
RECURSIVE checkFromWithoutReturn(_, _, _)
checkFromWithoutReturn(rules, k, value) ==
    IF k > Len(rules) THEN [result |-> True, evaluated |-> <<>>]
    ELSE LET result == RuleResult(rules[k], value)
             this == [rule |-> k, result |-> result]
             rest == checkFromWithoutReturn(rules, k + 1, value)
         IN  [result |-> IF result # True THEN result ELSE rest.result,
              evaluated |-> <<this>> \o rest.evaluated]

\* check(value, key, root): the rules one at a time from the k-th on, stopping
\* at the first result that is not true.  evaluated lists, in order, the rules
\* that were run and what each returned.
RECURSIVE checkFrom(_, _, _)
checkFrom(rules, k, value) ==
    IF k > Len(rules) THEN [result |-> True, evaluated |-> <<>>]
    ELSE LET result == RuleResult(rules[k], value)
             this == [rule |-> k, result |-> result]
         IN  IF result # True
             THEN [result |-> result, evaluated |-> <<this>>]
             ELSE LET rest == checkFrom(rules, k + 1, value)
                  IN  [result |-> rest.result,
                       evaluated |-> <<this>> \o rest.evaluated]

check(h, value) == checkFrom(h.rules, 1, value)

(***************************************************************************)
(* Kind factories (FjordInstance.string ... FjordInstance.boolean).  The   *)
(* factory call opens the chain's history.                                 *)
(***************************************************************************)
Made(h, m, arg, err) == [h EXCEPT !.calls = <<MethodCall(m, arg, err)>>]

\* string(nullable, err) calls new FjordString(nullable, err); the constructor
\* takes (err) only, so it receives nullable as its payload and err is dropped
string(nullable, err) == Made(FjordString(nullable), "string", nullable, err)
number(err) == Made(FjordNumber(err), "number", Undef, err)
integer(err) == Made(FjordInteger(err), "integer", Undef, err)
\* int(err): return this.integer(err)
int(err) == [integer(err) EXCEPT !.calls[1].m = "int"]
float(err) == Made(FjordFloat(err), "float", Undef, err)
array(err) == Made(FjordArray(err), "array", Undef, err)
object(err) == Made(FjordObject(err), "object", Undef, err)
any(err) == Made(FjordAny(err), "any", Undef, err)
boolean(err) == Made(FjordBoolean(err), "boolean", Undef, err)

(***************************************************************************)
(* The engine's options and the field declarations.  A transform option    *)
(* is a single function or an array of functions; functions are named.     *)
(***************************************************************************)
One(f) == [isArray |-> FALSE, fns |-> <<f>>]
Many(fs) == [isArray |-> TRUE, fns |-> fs]

\* normalizeToArray(val): if (Array.isArray(val)) return val; return [val]
normalizeToArray(val) == IF val.isArray THEN val.fns ELSE <<val.fns[1]>>

\* list.concat(add): an array argument is spliced in, a single value appended
concat(list, add) == list \o add.fns

\* the constructor's defaults: the hooks async () => {}, the transforms
\* async v => v.  A hook is named by what it does: "noop", "throws", or
\* "assigns" for (value, key, root) => { root[key] = 2 } (on the field's path).
DefaultOptions ==
    [before |-> "noop", transformBefore |-> One("identity"),
     transformAfter |-> One("identity"), after |-> "noop", onSuccess |-> "noop",
     onFail |-> "noop", onDefault |-> "noop"]

\* the transform functions the callers of the model supply
Transform(f, v) ==
    CASE f = "identity" -> v
      [] f = "increment" -> IF isInteger(v) THEN Num(v.n + 1) ELSE v
      [] f = "double" -> IF isInteger(v) THEN Num(2 * v.n) ELSE v
      [] OTHER -> Thrown

\* an IValidationRule: before/after tell whether the field has its own hook,
\* a field without transformBefore/transformAfter holds Many(<<>>): `|| []`
Declaration(key, h, hooks, tb, ta) ==
    [key |-> key, handler |-> h, before |-> hooks, after |-> hooks,
     transformBefore |-> tb, transformAfter |-> ta]

\* the paths the declarations name: a top-level key and a nested dotted path
Keys == {"a", "c.d"}

\* the segments of a path
Segments(key) == IF key = "c.d" THEN <<"c", "d">> ELSE <<key>>

\* the plain object { d: d, e: e }; a property holding Undef is absent
Pair(d, e) == [t |-> "object", n |-> 0, s |-> <<>>, a |-> <<d, e>>]

\* the plain object { d: value }
Map(value) == Pair(value, Undef)

\* the root {}: its properties a and c read undefined
EmptyRoot == [a |-> Undef, c |-> Undef]

\* v is a plain object that can be walked into
isMap(v) == v.t = "object" /\ Len(v.a) = 2

\* tree.get(key) on the tree made of the root: undefined when a segment on the
\* way is absent
get(r, key) ==
    LET p == Segments(key)
        top == r[p[1]]
    IN  IF Len(p) = 1 THEN top
        ELSE IF isMap(top) THEN top.a[1] ELSE Undef

\* tree.set(key, value): writes into the root in place, creating the
\* intermediate object when it is missing and leaving the other properties of
\* an existing one alone
set(r, key, value) ==
    LET p == Segments(key)
        top == r[p[1]]
    IN  IF Len(p) = 1 THEN [r EXCEPT ![p[1]] = value]
        ELSE IF isMap(top) THEN [r EXCEPT ![p[1]] = Pair(value, top.a[2])]
        ELSE [r EXCEPT ![p[1]] = Map(value)]

(***************************************************************************)
(* One validate call.  pc is the stage the call is at; i the declaration   *)
(* being processed; k the position within the stage's list of hooks or     *)
(* transforms; value and result are the locals of validateRules; returned  *)
(* is what the promise resolved with, error names what threw when it was   *)
(* rejected.  log and obj are history: every read, write, hook, transform  *)
(* and rule evaluation the call performed, in order, and the root as it    *)
(* was when validate was called.  run counts the validate calls made on    *)
(* the root so far and earlier is the log of the call before this one.     *)
(***************************************************************************)
Event(e, i, k, v, w) == [e |-> e, i |-> i, k |-> k, v |-> v, w |-> w]

Idle ==
    [pc |-> "idle", i |-> 0, k |-> 0, value |-> Undef, result |-> Undef,
     returned |-> Undef, error |-> "", log |-> <<>>, obj |-> EmptyRoot,
     run |-> 0, earlier |-> <<>>]

\* no second call: the one call of the other specifications runs alone
NoPeer ==
    [shared |-> FALSE, id |-> 1, call |-> Idle, root |-> EmptyRoot,
     begun |-> <<{}, {}>>, overlapped |-> FALSE]

Logged(c, ev) == [c EXCEPT !.log = Append(@, ev)]

\* the error of an awaited call caught and turned into a plain failure
RejectedAsFailure(c, e) == [c EXCEPT !.pc = "onFail", !.result = False]

\* an awaited call threw: nothing catches it, the promise of validate is
\* rejected with the error of e
Rejected(c, e) == [c EXCEPT !.pc = "rejected", !.error = e]

\* for (const func of hooks) await func(value, key, root): the k-th hook of the
\* list, the global one first (f tells what it does); after the last one the
\* call moves on to last.pc at declaration last.i
hookStep(c, hooks, f, e, last) ==
    LET c1 == Logged(c, Event(e, c.i, c.k, c.value, Undef))
    IN  IF hooks[c.k] = "global" /\ f = "throws" THEN Rejected(c1, e)
        ELSE IF c.k < Len(hooks) THEN [c1 EXCEPT !.k = c.k + 1]
        ELSE [c1 EXCEPT !.pc = last.pc, !.i = last.i]

\* the field's own hook taking the place of the global one
hooksOfReplacing(own) == IF own THEN <<"field">> ELSE <<"global">>

\* normalizeToArray(this.options.before).concat(add): the global hook, then
\* the field's own hook if it has one
hooksOf(own) == IF own THEN <<"global", "field">> ELSE <<"global">>

\* the pre-transforms without the global ones
preTransformsFieldOnly(o, d) == d.transformBefore.fns

preTransforms(o, d) == concat(normalizeToArray(o.transformBefore), d.transformBefore)

\* the post-transforms without the field's own
postTransformsGlobalOnly(o, d) == normalizeToArray(o.transformAfter)

postTransforms(o, d) == concat(normalizeToArray(o.transformAfter), d.transformAfter)

\* the presence check with the negation lost
missingRequiredNegationLost(value, h) == value = Undef /\ isOptional(h)

\* the presence check left out: an undefined value goes on to the rules
missingRequiredNever(value, h) == FALSE

\* value === undefined && !rule.handler.isOptional()
missingRequired(value, h) == value = Undef /\ ~isOptional(h)
\* the optional branch taken for any optional chain, present or not
absentOptionalIgnoringValue(value, h) == isOptional(h)

\* value === undefined && rule.handler.isOptional()
absentOptional(value, h) == value = Undef /\ isOptional(h)

\* the value a transformer is called with: the local `value`, which the loop
\* over the transformers does not update
transformerInput(c, r, d) == c.value

\* the transform step writing at the first segment of the path only
transformStepAtFirstSegment(c, r, d, fns, e, next) ==
    IF Len(fns) = 0 THEN [call |-> [c EXCEPT !.pc = next, !.k = 1], root |-> r]
    ELSE LET input == c.value
             output == Transform(fns[c.k], input)
             written == [r EXCEPT ![Segments(d.key)[1]] = output]
             c1 == Logged(Logged(c, Event(e, c.i, c.k, input, output)),
                          Event("set", c.i, c.k, Undef, output))
         IN  IF output = Thrown
             THEN [call |-> Rejected(Logged(c, Event(e, c.i, c.k, input, output)), e),
                   root |-> r]
             ELSE IF c.k < Len(fns)
             THEN [call |-> [c1 EXCEPT !.k = c.k + 1], root |-> written]
             ELSE [call |-> Logged([c1 EXCEPT !.pc = next, !.k = 1,
                                              !.value = get(written, d.key)],
                                   Event("get", c.i, 0, Undef, get(written, d.key))),
                   root |-> written]

\* tree.set(rule.key, await transformer(value, rule.key, root)) for the k-th
\* of the transformers fns, and value = tree.get(rule.key) after the last one;
\* a transformer that throws rejects the call.  Yields the call and the root.
transformStep(c, r, d, fns, e, next) ==
    IF Len(fns) = 0 THEN [call |-> [c EXCEPT !.pc = next, !.k = 1], root |-> r]
    ELSE LET input == transformerInput(c, r, d)
             output == Transform(fns[c.k], input)
             written == set(r, d.key, output)
             c1 == Logged(Logged(c, Event(e, c.i, c.k, input, output)),
                          Event("set", c.i, c.k, Undef, output))
         IN  IF output = Thrown
             THEN [call |-> Rejected(Logged(c, Event(e, c.i, c.k, input, output)), e),
                   root |-> r]
             ELSE IF c.k < Len(fns)
             THEN [call |-> [c1 EXCEPT !.k = c.k + 1], root |-> written]
             ELSE [call |-> Logged([c1 EXCEPT !.pc = next, !.k = 1,
                                              !.value = get(written, d.key)],
                                   Event("get", c.i, 0, Undef, get(written, d.key))),
                   root |-> written]

\* the rule check going on to the after hooks, past the post-transforms
checkStepSkippingPost(c, d) ==
    LET res == check(d.handler, c.value)
        evs == [j \in 1..Len(res.evaluated) |->
                   Event("rule", c.i, res.evaluated[j].rule, c.value,
                         res.evaluated[j].result)]
        c1 == [c EXCEPT !.log = @ \o evs]
    IN  IF res.result = Thrown THEN Rejected(c1, "rule")
        ELSE IF res.result # True
        THEN [c1 EXCEPT !.pc = "onFail", !.result = res.result]
        ELSE [c1 EXCEPT !.pc = "after", !.k = 1, !.result = res.result]

\* const result = await rule.handler.check(value, rule.key, root): a rule that
\* throws rejects the call, a result other than true is due to onFail
checkStep(c, d) ==
    LET res == check(d.handler, c.value)
        evs == [j \in 1..Len(res.evaluated) |->
                   Event("rule", c.i, res.evaluated[j].rule, c.value,
                         res.evaluated[j].result)]
        c1 == [c EXCEPT !.log = @ \o evs]
    IN  IF res.result = Thrown THEN Rejected(c1, "rule")
        ELSE IF res.result # True
        THEN [c1 EXCEPT !.pc = "onFail", !.result = res.result]
        ELSE [c1 EXCEPT !.pc = "post", !.k = 1, !.result = res.result]

\* the failure path returning false whatever the chain returned
failStepReturningFalse(c) ==
    Logged([c EXCEPT !.pc = "done", !.returned = False],
           Event("onFail", c.i, 0, c.value, Undef))

\* the failure path returning without calling onFail
failStepWithoutHook(c) == [c EXCEPT !.pc = "done", !.returned = c.result]

\* await this.options.onFail(value, rule.key, root); return result
\* (return false for a missing required field)
failStep(c) ==
    LET c1 == Logged(c, Event("onFail", c.i, 0, c.value, Undef))
    IN  IF options.onFail = "throws" THEN Rejected(c1, "onFail")
        ELSE [c1 EXCEPT !.pc = "done", !.returned = c.result]

\* the success path without the onSuccess hook
successStepWithoutHook(c) == [c EXCEPT !.pc = "done", !.returned = True]

\* await this.options.onSuccess(root); return true
successStep(c) ==
    LET c1 == Logged(c, Event("onSuccess", 0, 0, Undef, Undef))
    IN  IF options.onSuccess = "throws" THEN Rejected(c1, "onSuccess")
        ELSE [c1 EXCEPT !.pc = "done", !.returned = True]

\* validate(obj, rules): validateRules when rules is an array, else nothing
Validate ==
    /\ call.pc = "idle"
    /\ io.pc # "idle"
    /\ call' = IF decls.isArray
               THEN [call EXCEPT !.pc = "loop", !.i = 1, !.obj = root, !.run = 1]
               ELSE [call EXCEPT !.pc = "done", !.returned = Undef, !.obj = root,
                                 !.run = 1]
    /\ UNCHANGED <<options, decls, root, handler, checked, io, peer>>

\* the number of validate calls made one after the other on the same root
MaxRuns == 2

\* validate returned true and the caller calls validate(obj, rules) again, with
\* the same declarations and the same, now mutated, root
ValidateAgain ==
    /\ call.pc = "done"
    /\ decls.isArray
    /\ call.returned = True
    /\ call.run < MaxRuns
    /\ call' = [Idle EXCEPT !.pc = "loop", !.i = 1, !.obj = root,
                            !.run = call.run + 1, !.earlier = call.log]
    /\ UNCHANGED <<options, decls, root, handler, checked, io, peer>>

\* the loop head with runBefore called for a present value only
NextRuleBeforeIfPresent ==
    /\ call.pc = "loop"
    /\ call' =
         IF call.i > Len(decls.list)
         THEN [call EXCEPT !.pc = "onSuccess"]
         ELSE LET value == get(root, decls.list[call.i].key)
              IN  Logged([call EXCEPT !.pc = IF value = Undef THEN "presence"
                                                              ELSE "before",
                                      !.k = 1, !.value = value],
                         Event("get", call.i, 0, Undef, value))
    /\ UNCHANGED <<options, decls, root, handler, checked, io, peer>>

\* for (const rule of rules) { let value = tree.get(rule.key); ...
NextRule ==
    /\ call.pc = "loop"
    /\ call' =
         IF call.i > Len(decls.list)
         THEN [call EXCEPT !.pc = "onSuccess"]
         ELSE LET value == get(root, decls.list[call.i].key)
              IN  Logged([call EXCEPT !.pc = "before", !.k = 1, !.value = value],
                         Event("get", call.i, 0, Undef, value))
    /\ UNCHANGED <<options, decls, root, handler, checked, io, peer>>

\* the value an assigning hook stores at the field
Assigned == Num(2)

\* runBefore: await func(value, key, root) for the next before hook; a global
\* hook that assigns the field writes to the root
RunBefore ==
    /\ call.pc = "before"
    /\ LET d == decls.list[call.i]
           hooks == hooksOf(d.before)
           step == hookStep(call, hooks, options.before, "before",
                            [pc |-> "presence", i |-> call.i])
       IN  IF hooks[call.k] = "global" /\ options.before = "assigns"
           THEN /\ root' = set(root, d.key, Assigned)
                /\ call' = Logged(step, Event("assign", call.i, call.k, Undef, Assigned))
           ELSE /\ root' = root
                /\ call' = step
    /\ UNCHANGED <<options, decls, handler, checked, io, peer>>

\* a required field is undefined: onFail is due, false is the result
MissingRequired ==
    /\ call.pc = "presence"
    /\ missingRequired(call.value, decls.list[call.i].handler)
    /\ call' = [call EXCEPT !.pc = "onFail", !.result = False]
    /\ UNCHANGED <<options, decls, root, handler, checked, io, peer>>

\* the default branch with the default function given the root as it was when
\* validate was called
OptionalAbsentDefaultOfPassedRoot ==
    /\ call.pc = "presence"
    /\ absentOptional(call.value, decls.list[call.i].handler)
    /\ LET d == decls.list[call.i]
           def == getDefault(d.handler, call.obj)
       IN  IF hasDefault(d.handler)
           THEN /\ root' = set(root, d.key, def)
                /\ call' = Logged([call EXCEPT !.pc = "onDefault", !.k = 1],
                                  Event("set", call.i, 0, Undef, def))
           ELSE /\ root' = root
                /\ call' = [call EXCEPT !.pc = "loop", !.i = call.i + 1]
    /\ UNCHANGED <<options, decls, handler, checked, io, peer>>

\* the default branch handing the injected default on to onDefault
OptionalAbsentPassingDefault ==
    /\ call.pc = "presence"
    /\ absentOptional(call.value, decls.list[call.i].handler)
    /\ LET d == decls.list[call.i]
           def == getDefault(d.handler, root)
       IN  IF hasDefault(d.handler)
           THEN /\ root' = set(root, d.key, def)
                /\ call' = Logged([call EXCEPT !.pc = "onDefault", !.k = 1,
                                               !.value = def],
                                  Event("set", call.i, 0, Undef, def))
           ELSE /\ root' = root
                /\ call' = [call EXCEPT !.pc = "loop", !.i = call.i + 1]
    /\ UNCHANGED <<options, decls, handler, checked, io, peer>>

\* an optional field is undefined: write the default if the chain has one,
\* else continue with the next declaration
OptionalAbsent ==
    /\ call.pc = "presence"
    /\ absentOptional(call.value, decls.list[call.i].handler)
    /\ LET d == decls.list[call.i]
           def == getDefault(d.handler, root)
       IN  IF hasDefault(d.handler)
           THEN /\ root' = set(root, d.key, def)
                /\ call' = Logged([call EXCEPT !.pc = "onDefault", !.k = 1],
                                  Event("set", call.i, 0, Undef, def))
           ELSE /\ root' = root
                /\ call' = [call EXCEPT !.pc = "loop", !.i = call.i + 1]
    /\ UNCHANGED <<options, decls, handler, checked, io, peer>>

\* onDefault without the `continue` after it: the field goes on to the
\* pre-transforms
OnDefaultFallingThrough ==
    /\ call.pc = "onDefault"
    /\ call' = hookStep(call, <<"global">>, options.onDefault, "onDefault",
                        [pc |-> "pre", i |-> call.i])
    /\ UNCHANGED <<options, decls, root, handler, checked, io, peer>>

\* await this.options.onDefault(value, rule.key, root); continue
OnDefault ==
    /\ call.pc = "onDefault"
    /\ call' = hookStep(call, <<"global">>, options.onDefault, "onDefault",
                        [pc |-> "loop", i |-> call.i + 1])
    /\ UNCHANGED <<options, decls, root, handler, checked, io, peer>>

\* the field is defined: on to the pre-transforms
Defined ==
    /\ call.pc = "presence"
    /\ ~missingRequired(call.value, decls.list[call.i].handler)
    /\ ~absentOptional(call.value, decls.list[call.i].handler)
    /\ call' = [call EXCEPT !.pc = "pre", !.k = 1]
    /\ UNCHANGED <<options, decls, root, handler, checked, io, peer>>

\* the next pre-transform
PreTransform ==
    /\ call.pc = "pre"
    /\ LET d == decls.list[call.i]
           step == transformStep(call, root, d, preTransforms(options, d),
                                 "transformBefore", "check")
       IN  call' = step.call /\ root' = step.root
    /\ UNCHANGED <<options, decls, handler, checked, io, peer>>

\* the chain's check on the (transformed) value
CheckRules ==
    /\ call.pc = "check"
    /\ call' = checkStep(call, decls.list[call.i])
    /\ UNCHANGED <<options, decls, root, handler, checked, io, peer>>

\* onFail, then the call returns its failure
OnFail ==
    /\ call.pc = "onFail"
    /\ call' = failStep(call)
    /\ UNCHANGED <<options, decls, root, handler, checked, io, peer>>

\* the next post-transform
PostTransform ==
    /\ call.pc = "post"
    /\ LET d == decls.list[call.i]
           step == transformStep(call, root, d, postTransforms(options, d),
                                 "transformAfter", "after")
       IN  call' = step.call /\ root' = step.root
    /\ UNCHANGED <<options, decls, handler, checked, io, peer>>

\* runAfter: await func(value, key, root) for the next after hook; after the
\* last one the loop continues with the next declaration
RunAfter ==
    /\ call.pc = "after"
    /\ call' = hookStep(call, hooksOf(decls.list[call.i].after), options.after,
                        "after", [pc |-> "loop", i |-> call.i + 1])
    /\ UNCHANGED <<options, decls, root, handler, checked, io, peer>>

\* every declaration passed: onSuccess, then the call returns true
OnSuccess ==
    /\ call.pc = "onSuccess"
    /\ call' = successStep(call)
    /\ UNCHANGED <<options, decls, root, handler, checked, io, peer>>

(***************************************************************************)
(* Building and checking one chain (SpecChain).                            *)
(***************************************************************************)
(***************************************************************************)
(* The adapters (FjordInstance.connect, koa, graphql).  io holds what the   *)
(* adapter's function was called with: request is the object to validate   *)
(* (req, ctx.req, args), next tells what the continuation (next, or the     *)
(* wrapped resolver) does when called and throw what ctx.throw does.  pc is *)
(* the position of the adapter's function; calls is history: the calls it   *)
(* made to next, ctx.throw and the resolver; outcome and value are how its  *)
(* promise settled.                                                        *)
(***************************************************************************)
\* an Error object with the given message
Error(msg) == [t |-> "error", n |-> 0, s |-> <<msg>>, a |-> <<>>]

\* no adapter is involved: validate and check are called directly
NoAdapter ==
    [adapter |-> "none", request |-> EmptyRoot, next |-> "returns", throw |-> "returns",
     pc |-> "none", calls |-> <<>>, outcome |-> "pending", value |-> Undef]

\* the arguments (parent, args, ctx, info) of a resolver, by identity
ResolverArgs == <<Obj(21), Obj(22), Obj(23), Obj(24)>>

\* the value the wrapped resolver returns
Resolved == Num(42)

\* f(...args) was called
Called(o, f, args) == [o EXCEPT !.calls = Append(@, [f |-> f, args |-> args])]

\* the adapter's promise settled
Settled(o, outcome, value) ==
    [o EXCEPT !.pc = "settled", !.outcome = outcome, !.value = value]

\* the error validate was rejected with
ErrorOf(c) == Error(c.error)

\* `return next(...)` inside the try block: a continuation that throws is
\* caught, one that returns a rejected promise rejects the adapter's promise
\* (the promise is returned, not awaited, so the catch block does not see it)
Returned(o, value) ==
    CASE o.next = "throws" -> [caught |-> TRUE, o |-> o]
      [] o.next = "rejects" ->
            [caught |-> FALSE, o |-> Settled(o, "rejected", Error("next"))]
      [] OTHER -> [caught |-> FALSE, o |-> Settled(o, "resolved", value)]

\* the function connect(rules) returns, from the end of `await this.validate`:
\* next() on true, next(result || 400) otherwise, and next(500) from the catch
\* block, which also catches what next itself throws
connect(o, c) ==
    LET try == IF c.pc = "rejected" THEN [caught |-> TRUE, o |-> o]
               ELSE IF c.returned = True
               THEN Returned(Called(o, "next", <<>>), Undef)
               ELSE Returned(Called(o, "next", <<Or(c.returned, Num(400))>>), Undef)
        o1 == Called(try.o, "next", <<Num(500)>>)
    IN  IF ~try.caught THEN try.o
        ELSE IF o.next = "throws" THEN Settled(o1, "rejected", Error("next"))
        ELSE Settled(o1, "resolved", Undef)

\* the function koa(rules) returns, from the end of `await this.validate`:
\* next() on true, ctx.throw(400, result) otherwise, and ctx.throw(500, error)
\* from the catch block, which also catches what next and ctx.throw(400, ...)
\* throw
koa(o, c) ==
    LET o400 == Called(o, "throw", <<Num(400), c.returned>>)
        onTrue == Returned(Called(o, "next", <<>>), Undef)
        try == IF c.pc = "rejected" THEN [caught |-> TRUE, o |-> o, error |-> ErrorOf(c)]
               ELSE IF c.returned = True
               THEN [caught |-> onTrue.caught, o |-> onTrue.o, error |-> Error("next")]
               ELSE IF o.throw = "throws"
               THEN [caught |-> TRUE, o |-> o400, error |-> Error("400")]
               ELSE [caught |-> FALSE, o |-> Settled(o400, "resolved", Undef),
                     error |-> Undef]
        o500 == Called(try.o, "throw", <<Num(500), try.error>>)
    IN  IF ~try.caught THEN try.o
        ELSE IF o.throw = "throws" THEN Settled(o500, "rejected", Error("500"))
        ELSE Settled(o500, "resolved", Undef)

\* the resolver called inside the try block: what it throws is reported as
\* SERVER_ERROR
graphqlResolverInsideTry(o, c) ==
    IF c.pc = "rejected" THEN Settled(o, "rejected", Error("SERVER_ERROR"))
    ELSE IF c.returned = True
    THEN LET o1 == Called(o, "resolver", ResolverArgs)
         IN  IF o.next \in {"throws", "rejects"}
             THEN Settled(o1, "rejected", Error("SERVER_ERROR"))
             ELSE Settled(o1, "resolved", Resolved)
    ELSE Settled(o, "rejected", Error("BAD_REQUEST"))

\* the resolver called whatever validation returned
graphqlAlwaysResolving(o, c) ==
    IF c.pc = "rejected" THEN Settled(o, "rejected", Error("SERVER_ERROR"))
    ELSE LET o1 == Called(o, "resolver", ResolverArgs)
         IN  IF o.next \in {"throws", "rejects"}
             THEN Settled(o1, "rejected", Error("resolver"))
             ELSE Settled(o1, "resolved", Resolved)

\* the function graphql(rules, cb) returns, from the end of
\* `await this.validate`: SERVER_ERROR when validate threw, cb(parent, args,
\* ctx, info) on true, BAD_REQUEST otherwise
graphql(o, c) ==
    IF c.pc = "rejected" THEN Settled(o, "rejected", Error("SERVER_ERROR"))
    ELSE IF c.returned = True
    THEN LET o1 == Called(o, "resolver", ResolverArgs)
         IN  IF o.next \in {"throws", "rejects"}
             THEN Settled(o1, "rejected", Error("resolver"))
             ELSE Settled(o1, "resolved", Resolved)
    ELSE Settled(o, "rejected", Error("BAD_REQUEST"))

\* the adapter's function is called: await this.validate(request, rules)
Middleware ==
    /\ io.pc = "idle"
    /\ io' = [io EXCEPT !.pc = "awaiting"]
    /\ root' = io.request
    /\ UNCHANGED <<options, decls, call, handler, checked, peer>>

Connect ==
    /\ io.adapter = "connect"
    /\ io.pc = "awaiting"
    /\ call.pc \in {"done", "rejected"}
    /\ io' = connect(io, call)
    /\ UNCHANGED <<options, decls, root, call, handler, checked, peer>>

Koa ==
    /\ io.adapter = "koa"
    /\ io.pc = "awaiting"
    /\ call.pc \in {"done", "rejected"}
    /\ io' = koa(io, call)
    /\ UNCHANGED <<options, decls, root, call, handler, checked, peer>>

Graphql ==
    /\ io.adapter = "graphql"
    /\ io.pc = "awaiting"
    /\ call.pc \in {"done", "rejected"}
    /\ io' = graphql(io, call)
    /\ UNCHANGED <<options, decls, root, call, handler, checked, peer>>

NotChecked == [done |-> FALSE, value |-> Undef, result |-> Undef, evaluated |-> <<>>]

\* the number of calls made on one chain, the factory call included
MaxCalls == 2

\* the payloads given as err: none, falsy and truthy numbers and strings
Payloads == {Undef, Num(0), Str(<<>>), Num(7), Str(<<"e">>)}

\* the arguments given to default
DefaultArgs == {Undef, Null, Num(0), Fn(1)}

\* the argument given to each builder method
ArgsOf(class, m) ==
    CASE m = "custom" -> {Str(<<"even">>), Str(<<"taken">>), Str(<<"throws">>)}
      [] m = "equals" /\ class = "FjordString" -> {Str(<<"a">>)}
      [] m = "equals" /\ class = "FjordBoolean" -> {True}
      [] m = "equals" -> {Num(1)}
      [] m \in {"min", "max"} -> {Num(1)}
      [] m = "matches" -> {Str(<<"a">>)}
      [] m \in {"includes", "contains"} -> {Num(1)}
      [] m \in {"every", "some", "all", "any"} -> {Num(10)}
      [] OTHER -> {Undef}

\* the values handed to check
CheckValues ==
    {Undef, Null, True, False, Num(0), Num(1), Num(5), Half(1), Infinity, NaN,
     Str(<<>>), Str(<<"a">>), Str(<<"b", "c">>),
     Arr(1, <<>>), Arr(2, <<Num(1), Num(20)>>), Arr(3, <<Num(1), Str(<<"a">>)>>),
     Arr(4, <<Num(20)>>), Obj(5),
     Arr(6, <<Half(1), Half(2)>>), Arr(7, <<Arr(1, <<>>), Obj(5)>>),
     Arr(8, <<Str(<<"a">>), Str(<<>>)>>), Arr(9, <<Arr(1, <<>>), Arr(4, <<Num(20)>>)>>)}

Factories ==
    {string(nullable, err) : nullable \in {Undef, True, False}, err \in Payloads}
        \cup {number(err) : err \in Payloads}
        \cup {integer(err) : err \in Payloads}
        \cup {int(err) : err \in Payloads}
        \cup {float(err) : err \in Payloads}
        \cup {array(err) : err \in Payloads}
        \cup {object(err) : err \in Payloads}
        \cup {any(err) : err \in Payloads}
        \cup {boolean(err) : err \in Payloads}

InitChain ==
    /\ handler \in Factories
    /\ checked = NotChecked
    /\ options = DefaultOptions
    /\ decls = [isArray |-> TRUE, list |-> <<>>]
    /\ root = EmptyRoot
    /\ call = Idle
    /\ io = NoAdapter
    /\ peer = NoPeer

\* handler.optional()
CallOptional ==
    /\ Len(handler.calls) < MaxCalls
    /\ handler' = optional(handler)
    /\ checked' = NotChecked
    /\ UNCHANGED <<options, decls, root, call, io, peer>>

\* handler.default(value)
CallDefault ==
    /\ Len(handler.calls) < MaxCalls
    /\ \E value \in DefaultArgs : handler' = default(handler, value)
    /\ checked' = NotChecked
    /\ UNCHANGED <<options, decls, root, call, io, peer>>

\* handler.equals(...), handler.min(...), ...: one of the class's builders
CallBuilder ==
    /\ Len(handler.calls) < MaxCalls
    /\ \E m \in Methods(handler.class) :
         \E arg \in ArgsOf(handler.class, m), err \in Payloads :
            handler' = Builder(handler, m, arg, err)
    /\ checked' = NotChecked
    /\ UNCHANGED <<options, decls, root, call, io, peer>>

\* handler.of.strings(...), handler.of.integers(...), ...: an element-kind
\* builder reached through the element view of an array chain
CallOf ==
    /\ Len(handler.calls) < MaxCalls
    /\ handler.class = "FjordArray"
    /\ \E m \in ElementKinds, err \in Payloads :
         handler' = [Builder(of(handler), m, Undef, err)
                        EXCEPT !.calls[Len(handler.calls) + 1].m = ViaOf[m]]
    /\ checked' = NotChecked
    /\ UNCHANGED <<options, decls, root, call, io, peer>>

\* await handler.check(value, key, root)
CallCheck ==
    /\ ~checked.done
    /\ \E value \in CheckValues :
         LET res == check(handler, value)
         IN  checked' = [done |-> TRUE, value |-> value, result |-> res.result,
                         evaluated |-> res.evaluated]
    /\ UNCHANGED <<options, decls, root, call, handler, io, peer>>

NextChain == CallOptional \/ CallDefault \/ CallBuilder \/ CallOf \/ CallCheck

SpecChain == InitChain /\ [][NextChain]_vars

(***************************************************************************)
(* One validate call (Spec): the engine's options, the declarations and    *)
(* the root are the caller's.                                              *)
(***************************************************************************)
\* the number of declarations handed to validate
MaxDecls == 2

NoTransform == Many(<<>>)

\* integer("int").max(2, "big")
RequiredInteger ==
    Builder(integer(Str(<<"int">>)), "max", Num(2), Str(<<"big">>))
\* integer().optional().default(null).max(2, "big")
OptionalInteger ==
    Builder(default(optional(integer(Undef)), Null), "max", Num(2), Str(<<"big">>))
\* any().optional().default(undefined)
DefaultUndefined == default(optional(any(Undef)), Undef)
\* number().optional()
OptionalNumber == optional(number(Undef))
\* any().optional().default(root => root.a)
DefaultFromRoot == default(optional(any(Undef)), Fn(1))
\* any().default(root => root.a)
RequiredDefaultFromRoot == default(any(Undef), Fn(1))

\* any().custom(() => { throw ... })
ThrowingRule == Builder(any(Undef), "custom", Str(<<"throws">>), Undef)

Handlers ==
    {RequiredInteger, OptionalInteger, DefaultUndefined, OptionalNumber,
     DefaultFromRoot}

DeclChoices ==
    {Declaration(key, h, FALSE, NoTransform, NoTransform) :
        key \in Keys, h \in Handlers}
      \cup {Declaration("a", ThrowingRule, FALSE, NoTransform, NoTransform)}
      \cup {Declaration(key, RequiredInteger, TRUE, One("double"), One("increment")) :
                key \in Keys}

DeclLists ==
    UNION {[1..n -> DeclChoices] : n \in 0..MaxDecls}

OptionChoices ==
    {DefaultOptions,
     [DefaultOptions EXCEPT !.transformBefore = Many(<<"increment", "double">>),
                            !.transformAfter = Many(<<"double", "increment">>)]}

\* { a, c: { d } }, { a, c: {} } and { a }, with a and d possibly absent
Roots ==
    {[a |-> va, c |-> vc] :
        va \in {Undef, Null, Num(1), Num(5)},
        vc \in {Undef, Map(Undef), Map(Num(1))}}

Init ==
    /\ options \in OptionChoices
    /\ \/ decls \in {[isArray |-> TRUE, list |-> l] : l \in DeclLists}
       \/ decls = [isArray |-> FALSE, list |-> <<>>]
    /\ root \in Roots
    /\ call = Idle
    /\ handler = any(Undef)
    /\ checked = NotChecked
    /\ io = NoAdapter
    /\ peer = NoPeer

Next ==
    \/ Validate
    \/ NextRule
    \/ RunBefore
    \/ MissingRequired
    \/ OptionalAbsent
    \/ OnDefault
    \/ Defined
    \/ PreTransform
    \/ CheckRules
    \/ OnFail
    \/ PostTransform
    \/ RunAfter
    \/ OnSuccess

Spec == Init /\ [][Next]_vars

(***************************************************************************)
(* One validate call in which something throws (SpecThrow): one of the     *)
(* global hooks, a transform or a rule.                                    *)
(***************************************************************************)
HookNames == {"before", "after", "onSuccess", "onFail", "onDefault"}

ThrowingOptions ==
    {[DefaultOptions EXCEPT ![hook] = "throws"] : hook \in HookNames}
      \cup {[DefaultOptions EXCEPT !.transformBefore = Many(<<"identity", "throws">>)],
            [DefaultOptions EXCEPT !.transformAfter = One("throws")],
            DefaultOptions}

ThrowingDecls ==
    {Declaration("a", RequiredInteger, TRUE, One("double"), One("increment")),
     Declaration("a", RequiredInteger, FALSE, One("throws"), NoTransform),
     Declaration("a", RequiredInteger, FALSE, NoTransform, One("throws")),
     Declaration("a", ThrowingRule, FALSE, NoTransform, NoTransform),
     Declaration("c.d", OptionalInteger, FALSE, NoTransform, NoTransform),
     Declaration("c.d", RequiredInteger, TRUE, NoTransform, NoTransform)}

InitThrow ==
    /\ options \in ThrowingOptions
    /\ decls \in {[isArray |-> TRUE, list |-> l] :
                    l \in UNION {[1..n -> ThrowingDecls] : n \in 0..MaxDecls}}
    /\ root \in {r \in Roots : r.a \in {Num(1), Num(5)}}
    /\ call = Idle
    /\ handler = any(Undef)
    /\ checked = NotChecked
    /\ io = NoAdapter
    /\ peer = NoPeer

SpecThrow == InitThrow /\ [][Next]_vars

(***************************************************************************)
(* One validate call with a single global transformBefore and, on some     *)
(* fields, a single transformAfter (SpecTransform).                        *)
(***************************************************************************)
TransformOptions ==
    {[DefaultOptions EXCEPT !.transformBefore = One(t)] : t \in {"increment", "double"}}

TransformDecls ==
    {Declaration(key, h, FALSE, NoTransform, ta) :
        key \in Keys, h \in {RequiredInteger, OptionalInteger},
        ta \in {NoTransform, One("double"), One("increment")}}

InitTransform ==
    /\ options \in TransformOptions
    /\ decls \in {[isArray |-> TRUE, list |-> l] :
                    l \in UNION {[1..n -> TransformDecls] : n \in 0..MaxDecls}}
    /\ root \in {r \in Roots : r.a \in {Undef, Num(1), Num(5)}}
    /\ call = Idle
    /\ handler = any(Undef)
    /\ checked = NotChecked
    /\ io = NoAdapter
    /\ peer = NoPeer

SpecTransform == InitTransform /\ [][Next]_vars

(***************************************************************************)
(* One request through an adapter (SpecAdapter).                           *)
(***************************************************************************)
\* any().custom(v => v < 5 ? true : 0)
CodeRule == Builder(any(Undef), "custom", Str(<<"code">>), Undef)

AdapterDecls ==
    {Declaration("a", RequiredInteger, FALSE, NoTransform, NoTransform),
     Declaration("a", ThrowingRule, FALSE, NoTransform, NoTransform),
     Declaration("a", CodeRule, FALSE, NoTransform, NoTransform),
     Declaration("c.d", OptionalInteger, FALSE, NoTransform, NoTransform)}

Requests == {r \in Roots : r.a \in {Undef, Num(1), Num(5)} /\ r.c # Map(Undef)}

Adapters ==
    {[NoAdapter EXCEPT !.adapter = kind, !.request = r, !.next = n, !.throw = t,
                       !.pc = "idle"] :
        kind \in {"connect", "koa", "graphql"}, r \in Requests,
        n \in {"returns", "throws", "rejects"}, t \in {"returns", "throws"}}

InitAdapter ==
    /\ io \in {o \in Adapters : o.adapter = "koa" \/ o.throw = "returns"}
    /\ peer = NoPeer
    /\ options = DefaultOptions
    /\ \/ decls \in {[isArray |-> TRUE, list |-> l] :
                       l \in UNION {[1..n -> AdapterDecls] : n \in 0..MaxDecls}}
       \/ decls = [isArray |-> FALSE, list |-> <<>>]
    /\ root = EmptyRoot
    /\ call = Idle
    /\ handler = any(Undef)
    /\ checked = NotChecked

NextAdapter == Next \/ Middleware \/ Connect \/ Koa \/ Graphql

SpecAdapter == InitAdapter /\ [][NextAdapter]_vars

(***************************************************************************)
(* One validate call on roots whose nested path c.d is present, absent at  *)
(* its last segment or absent at its intermediate segment, the object c    *)
(* possibly holding another property e (SpecPath).                         *)
(***************************************************************************)
PathOptions ==
    {DefaultOptions, [DefaultOptions EXCEPT !.transformBefore = One("increment")]}

PathDecls ==
    {Declaration(key, h, FALSE, NoTransform, NoTransform) :
        key \in Keys,
        h \in {RequiredInteger, OptionalInteger, OptionalNumber, DefaultFromRoot}}
      \cup {Declaration(key, RequiredInteger, TRUE, One("double"), One("increment")) :
                key \in Keys}

\* { a?, c?: { d?, e? } }
PathRoots ==
    {[a |-> va, c |-> vc] :
        va \in {Undef, Num(1)},
        vc \in {Undef, Map(Undef), Map(Num(1)), Pair(Undef, Num(9)), Pair(Num(1), Num(9))}}

InitPath ==
    /\ options \in PathOptions
    /\ decls \in {[isArray |-> TRUE, list |-> l] :
                    l \in UNION {[1..n -> PathDecls] : n \in 0..MaxDecls}}
    /\ root \in PathRoots
    /\ call = Idle
    /\ handler = any(Undef)
    /\ checked = NotChecked
    /\ io = NoAdapter
    /\ peer = NoPeer

SpecPath == InitPath /\ [][Next]_vars

(***************************************************************************)
(* One validate call whose global before hook assigns the field in the     *)
(* root (SpecHook), with the default identity transformBefore or none.     *)
(***************************************************************************)
HookOptions ==
    {[DefaultOptions EXCEPT !.before = "assigns"],
     [DefaultOptions EXCEPT !.before = "assigns", !.transformBefore = Many(<<>>),
                            !.transformAfter = Many(<<>>)]}

HookDecls ==
    {Declaration(key, h, own, NoTransform, NoTransform) :
        key \in Keys, h \in {RequiredInteger, OptionalInteger, OptionalNumber},
        own \in BOOLEAN}

InitHook ==
    /\ options \in HookOptions
    /\ decls \in {[isArray |-> TRUE, list |-> l] :
                    l \in UNION {[1..n -> HookDecls] : n \in 0..MaxDecls}}
    /\ root \in {r \in Roots : r.a \in {Undef, Num(1), Num(5)} /\ r.c # Map(Undef)}
    /\ call = Idle
    /\ handler = any(Undef)
    /\ checked = NotChecked
    /\ io = NoAdapter
    /\ peer = NoPeer

SpecHook == InitHook /\ [][Next]_vars

(***************************************************************************)
(* validate called again on a root it accepted (SpecAgain).                *)
(***************************************************************************)
\* integer().optional().default(1)
DefaultOne == default(optional(integer(Undef)), Num(1))

AgainOptions ==
    {DefaultOptions, [DefaultOptions EXCEPT !.transformAfter = One("double")]}

AgainDecls ==
    {Declaration(key, h, FALSE, NoTransform, NoTransform) :
        key \in Keys,
        h \in {RequiredInteger, OptionalInteger, OptionalNumber, DefaultOne,
               DefaultFromRoot, RequiredDefaultFromRoot}}

InitAgain ==
    /\ options \in AgainOptions
    /\ decls \in {[isArray |-> TRUE, list |-> l] :
                    l \in UNION {[1..n -> AgainDecls] : n \in 0..MaxDecls}}
    /\ root \in {r \in Roots : r.a \in {Undef, Num(1)} /\ r.c # Map(Undef)}
    /\ call = Idle
    /\ handler = any(Undef)
    /\ checked = NotChecked
    /\ io = NoAdapter
    /\ peer = NoPeer

NextAgain == Next \/ ValidateAgain

SpecAgain == InitAgain /\ [][NextAgain]_vars

(***************************************************************************)
(* Two validate calls on one engine, with the same declarations, on one    *)
(* root or on two (SpecConc).  JavaScript runs one call at a time and      *)
(* changes over at an await only: call and root are the running call and   *)
(* its root, peer holds the suspended one.                                 *)
(***************************************************************************)
\* the call is at an await: what it does next is call a hook, a transformer or
\* handler.check and wait for it
AwaitPoint(c) ==
    \/ c.pc \in {"before", "onDefault", "check", "onFail", "after", "onSuccess"}
    \/ c.pc = "pre" /\ Len(preTransforms(options, decls.list[c.i])) > 0
    \/ c.pc = "post" /\ Len(postTransforms(options, decls.list[c.i])) > 0

\* the asynchronous step the call is at: the stage, the declaration and, in a
\* list of functions, the position
StepOf(c) ==
    <<c.pc, IF c.pc = "onSuccess" THEN 0 ELSE c.i,
      IF c.pc \in {"before", "pre", "post", "after"} THEN c.k ELSE 0>>

\* a loop over the hooks that calls the next hook without awaiting the one
\* before
BeginWithoutAwait ==
    /\ AwaitPoint(call)
    /\ StepOf(call) \notin peer.begun[peer.id]
    /\ peer' = [peer EXCEPT !.begun[peer.id] =
                   @ \cup {StepOf(call)}
                     \cup IF /\ call.pc \in {"before", "after"}
                             /\ call.k < Len(hooksOf(decls.list[call.i].before))
                          THEN {<<call.pc, call.i, call.k + 1>>}
                          ELSE {}]
    /\ UNCHANGED <<options, decls, root, call, handler, checked, io>>

\* await func(...): the function of the step the call is at is called; the
\* call goes on when it has settled
Begin ==
    /\ AwaitPoint(call)
    /\ StepOf(call) \notin peer.begun[peer.id]
    /\ peer' = [peer EXCEPT !.begun[peer.id] = @ \cup {StepOf(call)}]
    /\ UNCHANGED <<options, decls, root, call, handler, checked, io>>

\* the function the running call awaits has been called
Begun == AwaitPoint(call) => StepOf(call) \in peer.begun[peer.id]

\* the change-over with one tree for both calls: the resumed call goes on
\* with the root of the suspended one
SwitchKeepingTree ==
    /\ Begun
    /\ AwaitPoint(call) \/ call.pc \in {"done", "rejected"}
    /\ peer.call.pc \notin {"done", "rejected"}
    /\ call' = peer.call
    /\ root' = root
    /\ peer' = [peer EXCEPT !.id = 3 - @,
                            !.call = call,
                            !.overlapped = @ \/ call.pc \notin {"done", "rejected"}]
    /\ UNCHANGED <<options, decls, handler, checked, io>>

\* the change-over with every call working on a copy of its own: the resumed
\* call goes on with the copy it had when it was suspended
SwitchToOwnCopy ==
    /\ Begun
    /\ AwaitPoint(call) \/ call.pc \in {"done", "rejected"}
    /\ peer.call.pc \notin {"done", "rejected"}
    /\ call' = peer.call
    /\ root' = peer.root
    /\ peer' = [peer EXCEPT !.id = 3 - @,
                            !.call = call,
                            !.root = root,
                            !.overlapped = @ \/ call.pc \notin {"done", "rejected"}]
    /\ UNCHANGED <<options, decls, handler, checked, io>>

\* the running call is suspended at its await, or has returned, and the other
\* call is resumed (or started); a shared root stays where it is
Switch ==
    /\ Begun
    /\ AwaitPoint(call) \/ call.pc \in {"done", "rejected"}
    /\ peer.call.pc \notin {"done", "rejected"}
    /\ call' = peer.call
    /\ root' = IF peer.shared THEN root ELSE peer.root
    /\ peer' = [peer EXCEPT !.id = 3 - @,
                            !.call = call,
                            !.root = IF peer.shared THEN EmptyRoot ELSE root,
                            !.overlapped = @ \/ call.pc \notin {"done", "rejected"}]
    /\ UNCHANGED <<options, decls, handler, checked, io>>

\* one step of validateRules for a call c on a root r, whoever runs it: what
\* the action at c.pc does to the call and to the root
stepOfCall(c, r) ==
    LET d == decls.list[c.i]
        same(c1) == [call |-> c1, root |-> r]
    IN  CASE c.pc = "idle" ->
               IF decls.isArray
               THEN same([c EXCEPT !.pc = "loop", !.i = 1, !.obj = r, !.run = 1])
               ELSE same([c EXCEPT !.pc = "done", !.returned = Undef, !.obj = r,
                                   !.run = 1])
          [] c.pc = "loop" ->
               IF c.i > Len(decls.list) THEN same([c EXCEPT !.pc = "onSuccess"])
               ELSE same(Logged([c EXCEPT !.pc = "before", !.k = 1,
                                          !.value = get(r, d.key)],
                                Event("get", c.i, 0, Undef, get(r, d.key))))
          [] c.pc = "before" ->
               LET hooks == hooksOf(d.before)
                   step == hookStep(c, hooks, options.before, "before",
                                    [pc |-> "presence", i |-> c.i])
               IN  IF hooks[c.k] = "global" /\ options.before = "assigns"
                   THEN [call |-> Logged(step, Event("assign", c.i, c.k, Undef,
                                                     Assigned)),
                         root |-> set(r, d.key, Assigned)]
                   ELSE same(step)
          [] c.pc = "presence" ->
               IF missingRequired(c.value, d.handler)
               THEN same([c EXCEPT !.pc = "onFail", !.result = False])
               ELSE IF absentOptional(c.value, d.handler)
               THEN IF hasDefault(d.handler)
                    THEN [call |-> Logged([c EXCEPT !.pc = "onDefault", !.k = 1],
                                          Event("set", c.i, 0, Undef,
                                                getDefault(d.handler, r))),
                          root |-> set(r, d.key, getDefault(d.handler, r))]
                    ELSE same([c EXCEPT !.pc = "loop", !.i = c.i + 1])
               ELSE same([c EXCEPT !.pc = "pre", !.k = 1])
          [] c.pc = "onDefault" ->
               same(hookStep(c, <<"global">>, options.onDefault, "onDefault",
                             [pc |-> "loop", i |-> c.i + 1]))
          [] c.pc = "pre" ->
               transformStep(c, r, d, preTransforms(options, d),
                             "transformBefore", "check")
          [] c.pc = "check" -> same(checkStep(c, d))
          [] c.pc = "onFail" -> same(failStep(c))
          [] c.pc = "post" ->
               transformStep(c, r, d, postTransforms(options, d),
                             "transformAfter", "after")
          [] c.pc = "after" ->
               same(hookStep(c, hooksOf(d.after), options.after, "after",
                             [pc |-> "loop", i |-> c.i + 1]))
          [] c.pc = "onSuccess" -> same(successStep(c))
          [] OTHER -> same(c)

\* validate(root, rules) run from c to its end with nothing in between: the
\* call as it returns and the root as it leaves it
RECURSIVE validateRules(_, _)
validateRules(c, r) ==
    IF c.pc \in {"done", "rejected"} THEN [call |-> c, root |-> r]
    ELSE LET step == stepOfCall(c, r)
         IN  validateRules(step.call, step.root)

ConcOptions ==
    {DefaultOptions, [DefaultOptions EXCEPT !.transformBefore = One("increment")]}

ConcDecls ==
    {Declaration("a", RequiredInteger, TRUE, NoTransform, NoTransform),
     Declaration("a", DefaultOne, FALSE, NoTransform, NoTransform)}

\* {} and { a: 1 }
ConcRoots == {[a |-> va, c |-> Undef] : va \in {Undef, Num(1)}}

InitConc ==
    /\ options \in ConcOptions
    /\ decls \in {[isArray |-> TRUE, list |-> l] :
                    l \in UNION {[1..n -> ConcDecls] : n \in 0..MaxDecls}}
    /\ root \in ConcRoots
    /\ call = Idle
    /\ handler = any(Undef)
    /\ checked = NotChecked
    /\ io = NoAdapter
    /\ peer \in {[NoPeer EXCEPT !.shared = TRUE]}
                  \cup {[NoPeer EXCEPT !.root = r] : r \in ConcRoots}

NextConc ==
    \/ Begin
    \/ Switch
    \/ Begun /\ Next

SpecConc == InitConc /\ [][NextConc]_vars

(***************************************************************************)
(* Reading the history of a call.                                          *)
(***************************************************************************)
Declared == 1..Len(decls.list)

\* the positions in the log of the events e of declaration i
EventsOf(e, i) == {n \in 1..Len(call.log) : call.log[n].e = e /\ call.log[n].i = i}

\* the positions in the log of the events e of any declaration
AllEvents(e) == {n \in 1..Len(call.log) : call.log[n].e = e}

\* declaration i has been read: its first event is the read at the loop head
Reached(i) == EventsOf("get", i) # {}

\* the value read for declaration i at the loop head
FirstRead(i) ==
    call.log[CHOOSE n \in EventsOf("get", i) :
                \A m \in EventsOf("get", i) : n <= m].w

\* the call has left declaration i behind, by continuing or by returning
Left(i) == call.i > i \/ (call.i = i /\ call.pc \in {"done", "rejected"})

\* no event of a declaration after i is in the log
NothingAfter(i) == \A n \in 1..Len(call.log) : call.log[n].i <= i

\* C1 (first half): declaration i was found present and every rule evaluated
\* for it returned true
Satisfied(i) ==
    /\ Reached(i) => FirstRead(i) # Undef
    /\ \A n \in EventsOf("rule", i) : call.log[n].w = True

\* C1 (second half): no transform is configured, so the chain is handed the
\* value of the root as passed, and that value is present and passes
NoTransforms ==
    /\ options = DefaultOptions
    /\ \A i \in Declared :
         /\ decls.list[i].transformBefore = NoTransform
         /\ decls.list[i].transformAfter = NoTransform

SatisfiedAsPassed(i) ==
    LET v == get(call.obj, decls.list[i].key)
    IN  v # Undef /\ check(decls.list[i].handler, v).result = True

Succeeded ==
    /\ call.returned = True
    /\ Cardinality(AllEvents("onSuccess")) = 1
    /\ call.log[Len(call.log)].e = "onSuccess"
    /\ AllEvents("onFail") = {}

\* C1: when every declared field is present and the value handed to its chain
\* passes every rule, validate returns true, onSuccess has run exactly once (as
\* the last step) and onFail not at all.  Stated twice: for the values the
\* chains were handed in the call, and, where no transform is configured, for
\* the values of the root as the caller passed it.
C1_AllSatisfiedReturnsTrue ==
    (call.pc = "done" /\ decls.isArray) =>
        /\ (\A i \in Declared : Satisfied(i)) => Succeeded
        /\ (NoTransforms /\ \A i \in Declared : SatisfiedAsPassed(i)) => Succeeded

C1_Witness ==
    /\ call.pc = "done"
    /\ Len(decls.list) = 2
    /\ NoTransforms
    /\ \A i \in Declared : SatisfiedAsPassed(i) /\ EventsOf("rule", i) # {}
    /\ call.returned = True
    /\ Cardinality(AllEvents("onSuccess")) = 1

\* C2: once a non-optional field is read as undefined, no rule of its chain is
\* evaluated, nothing is read, written, transformed, checked or hooked for any
\* later declaration, onSuccess does not run, and validate returns false.
C2_MissingRequiredReturnsFalse ==
    \A i \in Declared :
        (Reached(i) /\ FirstRead(i) = Undef /\ ~decls.list[i].handler.m_optional) =>
            /\ call.i = i
            /\ NothingAfter(i)
            /\ EventsOf("rule", i) = {}
            /\ EventsOf("transformBefore", i) = {}
            /\ EventsOf("set", i) = {}
            /\ AllEvents("onSuccess") = {}
            /\ call.pc # "rejected"
            /\ call.pc = "done" => call.returned = False

C2_Witness ==
    /\ call.pc = "done"
    /\ Len(decls.list) = 2
    /\ FirstRead(1) = Undef
    /\ ~decls.list[1].handler.m_optional
    /\ get(root, decls.list[2].key) # Undef
    /\ call.returned = False

\* C4: when a rule of declaration i returns a result that is not true, that
\* rule is the first of the chain to fail on the value handed to it, nothing
\* happens for any later declaration, onSuccess does not run, and validate
\* returns exactly that result.
C4_FirstFailureReturned ==
    \A n \in AllEvents("rule") :
        LET ev == call.log[n]
            rules == decls.list[ev.i].handler.rules
        IN  ev.w \notin {True, Thrown} =>
                /\ ev.w = RuleResult(rules[ev.k], ev.v)
                /\ \A k \in 1..(ev.k - 1) : RuleResult(rules[k], ev.v) = True
                /\ \A m \in AllEvents("rule") : m <= n
                /\ call.i = ev.i
                /\ NothingAfter(ev.i)
                /\ AllEvents("onSuccess") = {}
                /\ call.pc \in {"onFail", "done"}
                /\ call.pc = "done" => call.returned = ev.w

C4_Witness ==
    /\ call.pc = "done"
    /\ Len(decls.list) = 2
    /\ call.i = 1
    /\ call.returned = Str(<<"big">>)
    /\ get(root, decls.list[2].key) = Undef

\* C3: check runs the rules in append order, one after the other, each on the
\* value it was given; every rule run before the last one run returned true;
\* a result that is not true is the result of the last rule run, and no rule
\* appended after it was run; the result is true iff every rule of the chain
\* returns true on the value.  (A rule that throws ends the check the same
\* way, by rejection.)
C3_CheckInOrderShortCircuit ==
    checked.done =>
        LET ev == checked.evaluated
            rules == handler.rules
        IN  /\ Len(ev) <= Len(rules)
            /\ \A j \in 1..Len(ev) :
                 /\ ev[j].rule = j
                 /\ ev[j].result = RuleResult(rules[j], checked.value)
                 /\ j < Len(ev) => ev[j].result = True
            /\ checked.result # True =>
                 /\ Len(ev) >= 1
                 /\ checked.result = ev[Len(ev)].result
                 /\ \A j \in 1..(Len(ev) - 1) :
                      RuleResult(rules[j], checked.value) = True
            /\ checked.result = True => Len(ev) = Len(rules)
            /\ checked.result = True <=>
                 \A j \in 1..Len(rules) : RuleResult(rules[j], checked.value) = True

\* a chain of three rules whose second rule fails while the third would fail too
C3_Witness ==
    /\ checked.done
    /\ Len(handler.rules) = 3
    /\ Len(checked.evaluated) = 2
    /\ checked.result = Str(<<"e">>)
    /\ RuleResult(handler.rules[3], checked.value) = Num(7)

\* the last method called on the chain, and whether it is a constraint builder
LastCall == handler.calls[Len(handler.calls)]
LastIsConstraint ==
    /\ Len(handler.calls) >= 2
    /\ LastCall.m \notin {"optional", "default", "custom"}

\* what a failing rule is to return for the payload err: err, or false if none
PayloadOrFalse(err) == IF err = Undef THEN False ELSE err

\* the check ended at rule j because its condition was false
FailedCondition(j) ==
    /\ checked.done
    /\ Len(checked.evaluated) = j
    /\ Condition(handler.rules[j].op, handler.rules[j].arg, checked.value) = False

\* C7: a constraint builder called with payload e yields a rule whose result,
\* when its condition fails, is e itself for any string or number e (0 and the
\* empty string included), and boolean false when no payload was given.
C7_PayloadReturnedVerbatim ==
    (LastIsConstraint /\ FailedCondition(Len(handler.rules))) =>
        checked.result = PayloadOrFalse(LastCall.err)

\* the rules the constructor of the class pushes: the type check, and for
\* integer and float chains the integral/fractional test after it
BuiltIn(class) == IF class \in {"FjordInteger", "FjordFloat"} THEN 2 ELSE 1

\* C8: a chain made by a kind factory called with payload err returns that
\* payload for a present value that fails the kind's built-in check, and
\* boolean false when no payload was given.
C8_KindPayloadReturned ==
    \A j \in 1..BuiltIn(handler.class) :
        (FailedCondition(j) /\ checked.value # Undef) =>
            checked.result = PayloadOrFalse(handler.calls[1].err)

\* C9: hasDefault() is true iff default(...) was called on the chain, whatever
\* its argument.
C9_HasDefaultIffCalled ==
    hasDefault(handler) <=>
        \E j \in 1..Len(handler.calls) : handler.calls[j].m = "default"

\* the argument of the last default(...) call made on chain h, if any
DefaultCalled(h) == \E j \in 1..Len(h.calls) : h.calls[j].m = "default"
DefaultArg(h) ==
    h.calls[CHOOSE j \in 1..Len(h.calls) :
               /\ h.calls[j].m = "default"
               /\ \A l \in (j + 1)..Len(h.calls) : h.calls[l].m # "default"].arg

\* declaration i is an optional field that was read as undefined
AbsentOptional(i) ==
    Reached(i) /\ FirstRead(i) = Undef /\ decls.list[i].handler.m_optional

\* C5: when the call has dealt with an optional, undefined field on whose chain
\* default(x) was called and goes on to the next declaration, the root holds x
\* at the field's path (x(root) when x is a function), onDefault has run exactly
\* once for the field and no rule of its chain was evaluated; the call never
\* ends at such a field.
C5_DefaultInjected ==
    \A i \in Declared :
        LET d == decls.list[i]
            x == DefaultArg(d.handler)
        IN  (AbsentOptional(i) /\ DefaultCalled(d.handler)) =>
                /\ EventsOf("rule", i) = {}
                /\ call.i = i => call.pc \notin {"onFail", "done", "rejected"}
                /\ (call.i = i + 1 /\ call.pc = "loop") =>
                     /\ Cardinality(EventsOf("onDefault", i)) = 1
                     /\ get(root, d.key) =
                            IF x.t = "function" THEN DefaultFunction(x, root) ELSE x

\* f_n(...f_2(f_1(v))): each transform applied to the result of the one before
RECURSIVE Composed(_, _)
Composed(fns, v) ==
    IF Len(fns) = 0 THEN v
    ELSE Transform(fns[Len(fns)], Composed(SubSeq(fns, 1, Len(fns) - 1), v))

\* C6: with two global transformBefore functions t1, t2 and a field-level t3,
\* when the rule check of the declaration is due the value handed to the chain,
\* which is also the value in the root, is t3(t2(t1(v))) for the value v read:
\* each transform is applied to the result of the previous one.
C6_PreTransformsCompose ==
    (/\ call.pc = "check"
     /\ Len(normalizeToArray(options.transformBefore)) = 2
     /\ Len(decls.list[call.i].transformBefore.fns) = 1) =>
        LET d == decls.list[call.i]
            expected == Composed(preTransforms(options, d), FirstRead(call.i))
        IN  call.value = expected /\ get(root, d.key) = expected

\* C10: for an optional chain whose field is read as present (null included),
\* no default is written and onDefault does not run; once past the check, the
\* rules evaluated and their results are those check yields for the same chain
\* marked required; and when one of them fails the call takes the failure path
\* and returns that result.
C10_PresentOptionalIsChecked ==
    \A i \in Declared :
        LET d == decls.list[i]
        IN  (Reached(i) /\ FirstRead(i) # Undef /\ d.handler.m_optional) =>
                /\ EventsOf("onDefault", i) = {}
                /\ \A n \in EventsOf("set", i) : call.log[n].k > 0
                /\ (call.i = i /\ call.pc = "presence") => ENABLED Defined
                /\ (Left(i) \/ (call.i = i /\ call.pc \in {"onFail", "post", "after"})) =>
                     /\ EventsOf("transformBefore", i) # {}
                     /\ EventsOf("rule", i) # {}
                     /\ \A n \in EventsOf("rule", i) :
                          LET ev == call.log[n]
                              required == [d.handler EXCEPT !.m_optional = FALSE]
                              asRequired == check(required, ev.v).evaluated
                          IN  /\ Cardinality(EventsOf("rule", i)) = Len(asRequired)
                              /\ ev.w = asRequired[ev.k].result
                              /\ ev.w \notin {True, Thrown} =>
                                   /\ call.i = i
                                   /\ call.pc \in {"onFail", "done"}
                                   /\ call.pc = "done" => call.returned = ev.w

\* scenario C: c = 5 is present, integer().optional().default(null).max(2, "big")
C10_Witness ==
    /\ call.pc = "done"
    /\ Len(decls.list) = 2
    /\ call.i = 2
    /\ decls.list[2].handler = OptionalInteger
    /\ FirstRead(2) = Num(5)
    /\ call.returned = Str(<<"big">>)

\* C11: for an optional field read as undefined whose chain holds no default,
\* nothing is written (the field still reads undefined when the call moves on,
\* and a call that has only met such fields has the root as it was passed),
\* onDefault and onFail are not invoked for it, no rule, transform or after
\* hook runs for it, and the call neither fails nor ends at it: it goes on to
\* the next declaration.
C11_AbsentOptionalWithoutDefault ==
    \A i \in Declared :
        LET d == decls.list[i]
        IN  (AbsentOptional(i) /\ d.handler.m_default = Undef) =>
                /\ EventsOf("set", i) = {}
                /\ EventsOf("onDefault", i) = {}
                /\ EventsOf("onFail", i) = {}
                /\ EventsOf("rule", i) = {}
                /\ EventsOf("transformBefore", i) = {}
                /\ EventsOf("transformAfter", i) = {}
                /\ EventsOf("after", i) = {}
                /\ call.i = i => call.pc \in {"before", "presence"}
                /\ (call.i = i + 1 /\ call.pc = "loop") => get(root, d.key) = Undef
                /\ (\A j \in 1..i : AbsentOptional(j)
                                        /\ decls.list[j].handler.m_default = Undef)
                        => ((call.i = i + 1 /\ call.pc = "loop") => root = call.obj)

\* { a: 1 } with c.d declared optional without default, then a: the call goes
\* on to a and succeeds, the root is as passed
C11_Witness ==
    /\ call.pc = "done"
    /\ Len(decls.list) = 2
    /\ decls.list[1].key = "c.d"
    /\ decls.list[1].handler = OptionalNumber
    /\ call.obj["c"] = Undef
    /\ EventsOf("rule", 2) # {}
    /\ call.returned = True
    /\ root = call.obj

\* C12: a validate call that completes without throwing has returned the
\* boolean true, the boolean false, a number or a string, whatever the
\* declarations argument and the rule results.
C12_ReturnsTrueOrFailure ==
    call.pc = "done" =>
        \/ call.returned \in {True, False}
        \/ call.returned.t \in {"number", "string"}

\* the stage an event belongs to: 1 before hooks, 2 presence/default branch,
\* 3 transformBefore, 4 rule check, 5 transformAfter, 6 after hooks; 0 for the
\* reads and the transforms' writes, which belong to the stage around them,
\* and for onFail and onSuccess, which end the call
StageOf(ev) ==
    CASE ev.e = "before" -> 1
      [] ev.e = "onDefault" \/ (ev.e = "set" /\ ev.k = 0) -> 2
      [] ev.e = "transformBefore" -> 3
      [] ev.e = "rule" -> 4
      [] ev.e = "transformAfter" -> 5
      [] ev.e = "after" -> 6
      [] OTHER -> 0

\* the number of events e logged for declaration i
Count(e, i) == Cardinality(EventsOf(e, i))

\* the steps of the call that belong to a stage, in the order performed
IsStaged(ev) == StageOf(ev) > 0
Staged == SelectSeq(call.log, IsStaged)

\* C13: in the order the call performed them, the steps of one declaration go
\* before hooks, presence/default branch, transformBefore functions, rule
\* check, transformAfter functions, after hooks, the functions of one stage in
\* their configured order; a stage has run all its functions (and each
\* transform's result is written) before the first step of a later stage; and
\* every step of a declaration precedes every step of the next declaration,
\* which starts only when the declaration before it is through.
C13_StagesInOrder ==
    /\ \A n \in 1..(Len(call.log) - 1) :
         call.log[n + 1].e # "onSuccess" => call.log[n].i <= call.log[n + 1].i
    /\ LET steps == Staged
       IN  \A n \in 1..(Len(steps) - 1) :
             LET x == steps[n]
                 y == steps[n + 1]
             IN  x.i = y.i =>
                    /\ StageOf(x) <= StageOf(y)
                    /\ x.e = y.e => y.k = x.k + 1
                    /\ x.e # y.e => y.k = 1 \/ y.e = "set"
    /\ \A i \in Declared :
         LET d == decls.list[i]
             mine == {n \in DOMAIN call.log : call.log[n].i = i}
             count(e) == Cardinality({n \in mine : call.log[n].e = e})
             started(st) == \E n \in mine : StageOf(call.log[n]) >= st
             through == count("after") = Len(hooksOf(d.after))
             skipped == AbsentOptional(i) /\ count("after") = 0
         IN  /\ (started(2) \/ Left(i)) => count("before") = Len(hooksOf(d.before))
             /\ started(4) =>
                  /\ count("transformBefore") = Len(preTransforms(options, d))
                  /\ \A n \in mine :
                       call.log[n].e = "transformBefore" =>
                          /\ n < Len(call.log)
                          /\ call.log[n + 1].e = "set"
                          /\ call.log[n + 1].w = call.log[n].w
             /\ started(5) => count("rule") = Len(d.handler.rules)
             /\ started(6) =>
                  /\ count("rule") = Len(d.handler.rules)
                  /\ count("transformAfter") = Len(postTransforms(options, d))
             /\ (Reached(i + 1) \/ AllEvents("onSuccess") # {}) =>
                  (Reached(i) /\ (through \/ skipped))

\* two declarations with their own hooks and transforms, both passing
C13_Witness ==
    /\ call.pc = "done"
    /\ call.returned = True
    /\ Len(decls.list) = 2
    /\ \A i \in Declared :
         /\ Count("before", i) = 2
         /\ Count("transformBefore", i) = 3
         /\ Count("rule", i) = 3
         /\ Count("transformAfter", i) = 3
         /\ Count("after", i) = 2

\* the value of declaration i as its pre-transforms left it: what the last of
\* them wrote, or the value read when none ran
LeftByPreTransforms(i) ==
    LET writes == {n \in EventsOf("set", i) : call.log[n].k > 0}
    IN  IF writes = {} THEN FirstRead(i)
        ELSE call.log[CHOOSE n \in writes : \A m \in writes : m <= n].w

\* C14: when validateRules has returned a result that is not true, onFail was
\* invoked exactly once, as the last step before the return, for the failing
\* declaration and with its value as the pre-transforms left it (undefined for
\* a missing required field), which is the value the root holds at its key;
\* onSuccess was not invoked, and neither the post-transforms nor the after
\* hooks ran for the failing declaration.
C14_OnFailOnceBeforeReturn ==
    (call.pc = "done" /\ decls.isArray /\ call.returned # True) =>
        LET ev == call.log[Len(call.log)]
        IN  /\ Cardinality(AllEvents("onFail")) = 1
            /\ ev.e = "onFail"
            /\ ev.i = call.i
            /\ ev.v = LeftByPreTransforms(call.i)
            /\ ev.v = get(root, decls.list[call.i].key)
            /\ AllEvents("onSuccess") = {}
            /\ EventsOf("after", call.i) = {}
            /\ EventsOf("transformAfter", call.i) = {}

\* { a: 5 } with transformBefore v => v * 2 and integer("int").max(2, "big"):
\* onFail receives 10
C14_Witness ==
    /\ call.pc = "done"
    /\ call.returned = Str(<<"big">>)
    /\ FirstRead(call.i) = Num(5)
    /\ call.log[Len(call.log)].e = "onFail"
    /\ call.log[Len(call.log)].v = Num(10)

\* the event is the call of a function that threw: a rule or transform whose
\* outcome is an exception, or a global hook that throws
Threw(ev) ==
    \/ ev.e \in {"rule", "transformBefore", "transformAfter"} /\ ev.w = Thrown
    \/ ev.e \in HookNames /\ options[ev.e] = "throws" /\ ev.k <= 1

\* C15: once a hook, transform or rule has thrown, validate is rejected with
\* the error of that very call: nothing is returned (the error is not turned
\* into a failure payload), the throwing call is the last thing the call did
\* (no onFail, onSuccess, later stage or later declaration follows it), and
\* nothing more can happen.  A call is rejected only this way.
C15_ThrowRejects ==
    /\ \A n \in 1..Len(call.log) :
         Threw(call.log[n]) =>
            /\ call.pc = "rejected"
            /\ call.error = call.log[n].e
            /\ n = Len(call.log)
            /\ call.returned = Undef
            /\ call.i = call.log[n].i \/ call.log[n].e = "onSuccess"
            /\ ~ENABLED Next
    /\ call.pc = "rejected" =>
         Len(call.log) > 0 /\ Threw(call.log[Len(call.log)])

\* the first declaration passes its rules and a transformAfter throws
C15_Witness ==
    /\ call.pc = "rejected"
    /\ call.error = "transformAfter"
    /\ Len(decls.list) = 2
    /\ call.i = 1
    /\ Count("rule", 1) = 3
    /\ AllEvents("onFail") = {}

\* the calls the adapter made to f, as positions in io.calls
CallsTo(f) == {n \in 1..Len(io.calls) : io.calls[n].f = f}

\* validation returned true / returned something else / threw
Passed == call.pc = "done" /\ call.returned = True
Failed == call.pc = "done" /\ call.returned # True
Raised == call.pc = "rejected"

\* C16: the connect adapter validates the request object as the root; it calls
\* next with no argument iff validation returned true; on a validation failure
\* it calls next with the failure payload, or with 400 when the payload is the
\* boolean false; when validation throws it calls next(500).  (Stated for
\* declarations given as an array.)
C16_ConnectCallsNext ==
    (io.adapter = "connect" /\ io.pc = "settled" /\ decls.isArray) =>
        /\ call.obj = io.request
        /\ (\E n \in CallsTo("next") : io.calls[n].args = <<>>) <=> Passed
        /\ Failed =>
             io.calls[1] =
                [f |-> "next",
                 args |-> <<IF call.returned = False THEN Num(400) ELSE call.returned>>]
        /\ Raised => io.calls = <<[f |-> "next", args |-> <<Num(500)>>]>>

\* C17: the koa adapter validates ctx.req; on success it calls next exactly
\* once and never ctx.throw; on a validation failure it calls ctx.throw exactly
\* once, with (400, failure payload), and does not call next; it calls
\* ctx.throw(500, error) only when validation raised an error; whether
\* ctx.throw returns or throws.  (Stated for declarations given as an array
\* and a next that returns.)
C17_KoaThrowsOnce ==
    (io.adapter = "koa" /\ io.pc = "settled" /\ decls.isArray /\ io.next = "returns") =>
        /\ call.obj = io.request
        /\ Passed => Cardinality(CallsTo("next")) = 1 /\ CallsTo("throw") = {}
        /\ Failed =>
             /\ CallsTo("next") = {}
             /\ Cardinality(CallsTo("throw")) = 1
             /\ \A n \in CallsTo("throw") :
                  io.calls[n].args = <<Num(400), call.returned>>
        /\ \A n \in CallsTo("throw") : io.calls[n].args[1] = Num(500) => Raised

\* C18: the graphql adapter validates args as the root; the wrapped resolver is
\* called iff validation returned true, and then exactly once, with the same
\* (parent, args, ctx, info), its outcome being the adapter's; for every other
\* validation result the adapter makes no call and rejects with the error
\* BAD_REQUEST, which does not carry the failure payload; when validation
\* throws it makes no call and rejects with SERVER_ERROR.
C18_GraphqlResolvesIffTrue ==
    (io.adapter = "graphql" /\ io.pc = "settled") =>
        /\ call.obj = io.request
        /\ CallsTo("resolver") # {} <=> Passed
        /\ Passed =>
             /\ io.calls = <<[f |-> "resolver", args |-> ResolverArgs]>>
             /\ io.next = "returns" => io.outcome = "resolved" /\ io.value = Resolved
        /\ Failed =>
             /\ io.calls = <<>>
             /\ io.outcome = "rejected"
             /\ io.value = Error("BAD_REQUEST")
        /\ Raised =>
             /\ io.calls = <<>>
             /\ io.outcome = "rejected"
             /\ io.value = Error("SERVER_ERROR")

\* args { a: 5 } against integer("int").max(2, "big"): BAD_REQUEST, not "big"
C18_Witness ==
    /\ io.adapter = "graphql"
    /\ io.pc = "settled"
    /\ call.returned = Str(<<"big">>)
    /\ io.calls = <<>>
    /\ io.value = Error("BAD_REQUEST")

\* a value is of the element kind m
OfKind(m, x) ==
    CASE m = "strings" -> isString(x)
      [] m = "numbers" -> isNumber(x)
      [] m = "integers" -> isInteger(x)
      [] m = "floats" -> isFloat(x)
      [] m = "arrays" -> isArray(x)
      [] m = "objects" -> isObject(x)

\* the calls on the chain that append a rule: all but optional and default
Appending == {j \in 2..Len(handler.calls) : handler.calls[j].m \notin {"optional", "default"}}

\* C20: when the last call on an array chain is an element-kind builder reached
\* through of, the chain is still the one the factory made: its first rule is
\* the array type check with the factory's payload, every appending call has
\* one rule in call order and the element rule is the last of them; check runs
\* the element rule only on arrays, after the rules before it, and the element
\* rule passes iff every member of the array is of the kind, so an array with a
\* member of another kind makes check fail.
C20_OfAppendsElementRule ==
    \A m \in ElementKinds :
        (handler.class = "FjordArray" /\ LastCall.m = ViaOf[m]) =>
            LET n == Len(handler.rules)
                v == checked.value
                ev == checked.evaluated
            IN  /\ handler.rules[1] = Rule("isArray", Undef, handler.calls[1].err)
                /\ n = 1 + Cardinality(Appending)
                /\ handler.rules[n].err = LastCall.err
                /\ (checked.done /\ ~isArray(v)) => Len(ev) = 1
                /\ (checked.done /\ Len(ev) = n) =>
                     /\ isArray(v)
                     /\ ev[n].result = True <=>
                            \A k \in 1..Len(v.a) : OfKind(m, v.a[k])
                /\ (checked.done /\ isArray(v)
                        /\ \E k \in 1..Len(v.a) : ~OfKind(m, v.a[k])) =>
                     checked.result # True

\* scenario D: array().of.integers() on [1, "a"] returns false
C20_Witness ==
    /\ checked.done
    /\ Len(handler.calls) = 2
    /\ handler.calls[1] = MethodCall("array", Undef, Undef)
    /\ handler.calls[2] = MethodCall("of.integers", Undef, Undef)
    /\ checked.value = Arr(3, <<Num(1), Str(<<"a">>)>>)
    /\ Len(checked.evaluated) = 2
    /\ checked.result = False

\* one global transformBefore, the default transformAfter, and on each field no
\* transformBefore and at most one transformAfter
SingleTransforms ==
    /\ Len(normalizeToArray(options.transformBefore)) = 1
    /\ options.transformAfter = DefaultOptions.transformAfter
    /\ \A i \in Declared :
         /\ decls.list[i].transformBefore = NoTransform
         /\ Len(decls.list[i].transformAfter.fns) <= 1

\* u(t(v)) for declaration d: t the global transformBefore, u the field's
\* transformAfter (t(v) when it has none)
Transformed(d, v) ==
    LET t == normalizeToArray(options.transformBefore)[1]
        u == d.transformAfter.fns
    IN  IF Len(u) = 0 THEN Transform(t, v) ELSE Transform(u[1], Transform(t, v))

\* the declarations naming the path key
Naming(key) == {i \in Declared : decls.list[i].key = key}

\* C19: with a single global transformBefore t and at most one field-level
\* transformAfter u per field, when the call is through with a present field
\* whose value read was v, the caller's root holds u(t(v)) at the field's path
\* (t(v) without transformAfter); and when validate has returned true the root
\* holds u(t(v)) at every path named by exactly one declaration and present,
\* v being the value of the root as passed, while a path no declaration names
\* holds what it held.  Paths are the top-level a and the nested c.d.
C19_TransformsWrittenInPlace ==
    SingleTransforms =>
        /\ \A i \in Declared :
             LET d == decls.list[i]
             IN  (call.i = i + 1 /\ call.pc = "loop" /\ FirstRead(i) # Undef) =>
                    get(root, d.key) = Transformed(d, FirstRead(i))
        /\ (call.pc = "done" /\ call.returned = True) =>
             \A key \in Keys :
                 /\ Naming(key) = {} => get(root, key) = get(call.obj, key)
                 /\ (Cardinality(Naming(key)) = 1 /\ get(call.obj, key) # Undef) =>
                      get(root, key) =
                         Transformed(decls.list[CHOOSE i \in Naming(key) : TRUE],
                                     get(call.obj, key))

\* { a: 1, c: { d: 1 } } with t = v => v + 1, u = v => v * 2 on c.d and no
\* transformAfter on a: the root ends as { a: 2, c: { d: 4 } }
C19_Witness ==
    /\ call.pc = "done"
    /\ call.returned = True
    /\ SingleTransforms
    /\ call.obj = [a |-> Num(1), c |-> Map(Num(1))]
    /\ Len(decls.list) = 2
    /\ decls.list[1].key = "a"
    /\ decls.list[2].key = "c.d"
    /\ root = [a |-> Num(2), c |-> Map(Num(4))]

\* the caller predicate p named by threshold holds for member x: x > threshold
Holds(threshold, x) == x.t = "number" /\ x.s = <<>> /\ x.n > threshold.n

\* C21: when the last call on an array chain is every(p, err) or all(p, err),
\* the rule it appended is the same for both names and, run on an array,
\* returns true iff p holds for every member (so it passes on the empty
\* array); when it is some(p, err) or any(p, err), the rule is the same for
\* both names and returns true iff p holds for at least one member (so it
\* fails on the empty array).
C21_EverySomeQuantify ==
    (handler.class = "FjordArray" /\ Len(handler.calls) >= 2
        /\ LastCall.m \in {"every", "all", "some", "any"}) =>
        LET n == Len(handler.rules)
            v == checked.value
            universal == LastCall.m \in {"every", "all"}
        IN  /\ handler.rules[n] =
                  Rule(IF universal THEN "every" ELSE "some", LastCall.arg, LastCall.err)
            /\ handler.rules[n] =
                  Builder(array(Undef), IF universal THEN "every" ELSE "some",
                          LastCall.arg, LastCall.err).rules[2]
            /\ (checked.done /\ Len(checked.evaluated) = n) =>
                  /\ isArray(v)
                  /\ universal =>
                        (checked.evaluated[n].result = True <=>
                            \A k \in 1..Len(v.a) : Holds(LastCall.arg, v.a[k]))
                  /\ ~universal =>
                        (checked.evaluated[n].result = True <=>
                            \E k \in 1..Len(v.a) : Holds(LastCall.arg, v.a[k]))
                  /\ checked.result = checked.evaluated[n].result

\* array().any(i => i > 10) on the empty array fails
C21_Witness ==
    /\ checked.done
    /\ Len(handler.calls) = 2
    /\ LastCall.m = "any"
    /\ checked.value = Arr(1, <<>>)
    /\ Len(checked.evaluated) = 2
    /\ checked.result # True

\* a number other than NaN and the infinities
Finite(v) == v.t = "number" /\ v.s \notin {<<"inf">>, <<"nan">>}

\* C22: an integer or float chain starts with the number type check followed
\* directly by one extra rule, every builder call adding one rule after them;
\* with no further rule the integer chain passes exactly the finite whole
\* numbers and the float chain exactly the finite numbers with a fractional
\* part; int(err) builds the chain integer(err) builds.
C22_IntegerFloatChains ==
    handler.class \in {"FjordInteger", "FjordFloat"} =>
        LET whole == handler.class = "FjordInteger"
            err == handler.calls[1].err
        IN  /\ Len(handler.rules) = 2 + Cardinality(Appending)
            /\ handler.rules[1] = Rule("isNumber", Undef, err)
            /\ handler.rules[2] = Rule(IF whole THEN "isInteger" ELSE "isFloat", Undef, err)
            /\ handler.calls[1].m = "int" =>
                  /\ whole
                  /\ SubSeq(handler.rules, 1, 2) = integer(err).rules
            /\ (checked.done /\ Len(handler.rules) = 2) =>
                  (checked.result = True <=>
                      /\ Finite(checked.value)
                      /\ whole <=> checked.value.s = <<>>)

\* a segment of the path key is absent from root r: the property itself, or
\* for the nested path the object it would be a property of
AbsentIn(r, key) ==
    IF key = "a" THEN r.a = Undef
    ELSE r.c = Undef \/ (isMap(r.c) /\ r.c.a[1] = Undef)

\* C23: a declaration whose path has an absent final or intermediate segment
\* is read as undefined, and the call is not rejected at it; if its chain is
\* required no rule or transform runs for it and validate returns false; if
\* its chain is optional no rule, transform or after hook runs for it and the
\* call goes on to the next declaration.
C23_AbsentPathReadsUndefined ==
    \A i \in Declared :
        LET d == decls.list[i]
            here == call.i = i
        IN  /\ (here /\ call.pc = "before" /\ AbsentIn(root, d.key)) =>
                   call.value = Undef /\ FirstRead(i) = Undef
            /\ (Reached(i) /\ FirstRead(i) = Undef) =>
                   /\ here => call.pc # "rejected"
                   /\ EventsOf("rule", i) = {}
                   /\ EventsOf("transformBefore", i) = {}
                   /\ EventsOf("transformAfter", i) = {}
                   /\ EventsOf("after", i) = {}
                   /\ ~d.handler.m_optional =>
                         /\ here
                         /\ call.pc \in {"before", "presence", "onFail", "done"}
                         /\ call.pc = "done" => call.returned = False
                   /\ d.handler.m_optional =>
                         /\ EventsOf("onFail", i) = {}
                         /\ here => call.pc \in {"before", "presence", "onDefault"}

\* { a: 1 } with c.d declared optional and then c.d declared required: the
\* first is skipped, the second makes validate return false
C23_Witness ==
    /\ call.pc = "done"
    /\ call.obj = [a |-> Num(1), c |-> Undef]
    /\ Len(decls.list) = 2
    /\ decls.list[1] = Declaration("c.d", OptionalNumber, FALSE, NoTransform, NoTransform)
    /\ decls.list[2] = Declaration("c.d", RequiredInteger, FALSE, NoTransform, NoTransform)
    /\ call.i = 2
    /\ call.returned = False

\* the value the first n events of the log leave at the path key: what the
\* last write of a declaration naming key wrote, or what the root held there
\* when validate was called
Held(n, key) ==
    LET writes == {m \in 1..n : call.log[m].e = "set"
                                   /\ decls.list[call.log[m].i].key = key}
    IN  IF writes = {} THEN get(call.obj, key)
        ELSE call.log[CHOOSE m \in writes : \A l \in writes : l <= m].w

\* C24: every transform result is written (a set follows each transform);
\* after any writes of defaults and transform results, each path holds what
\* was last written at it, or what it held at the start if nothing was written
\* at it, and every read returns just that; a write at c.d with c absent has
\* created c as a mapping holding d alone, and a property e of an existing c
\* is left as it was.
C24_WriteCreatesPath ==
    call.pc # "idle" =>
        /\ \A key \in Keys : get(root, key) = Held(Len(call.log), key)
        /\ \A n \in 1..Len(call.log) :
             LET ev == call.log[n]
             IN  /\ ev.e = "get" => ev.w = Held(n - 1, decls.list[ev.i].key)
                 /\ (ev.e \in {"transformBefore", "transformAfter"} /\ ev.w # Thrown) =>
                       /\ n < Len(call.log)
                       /\ call.log[n + 1] = Event("set", ev.i, ev.k, Undef, ev.w)
        /\ isMap(call.obj.c) => isMap(root.c) /\ root.c.a[2] = call.obj.c.a[2]
        /\ ~isMap(call.obj.c) =>
             \/ root.c = call.obj.c /\ Held(Len(call.log), "c.d") = Undef
             \/ root.c = Map(Held(Len(call.log), "c.d"))

\* {} with c.d declared integer().optional().default(null) twice: the first
\* declaration creates c as { d: null }, the second reads null back
C24_Witness ==
    /\ call.pc = "done"
    /\ call.obj = EmptyRoot
    /\ Len(decls.list) = 2
    /\ decls.list[1].key = "c.d"
    /\ decls.list[2].key = "c.d"
    /\ EventsOf("set", 1) # {}
    /\ FirstRead(2) = Null
    /\ root = [a |-> Undef, c |-> Map(Null)]

\* C25: a validate call made on a root that the call before it accepted, with
\* the same declarations, returns true.
C25_RevalidationStable ==
    (call.run >= 2 /\ call.pc = "done") => call.returned = True

\* the value the call before this one read for declaration i at the loop head
EarlierRead(i) ==
    LET reads == {n \in 1..Len(call.earlier) :
                     call.earlier[n].e = "get" /\ call.earlier[n].i = i}
    IN  call.earlier[CHOOSE n \in reads : \A m \in reads : n <= m].w

\* declaration i was found absent by the call before this one and is found
\* present by this one: a default was injected at its path in between
NewlyPresent(i) == Reached(i) /\ EarlierRead(i) = Undef /\ FirstRead(i) # Undef

\* C25 (amended): a validate call made on a root that the call before it
\* accepted, with the same declarations, returns true and leaves every present
\* value as it was, provided no transform other than the identity is
\* configured and every field the earlier call found absent and this call
\* finds present holds a value that passes its declaration's chain.
C25_RevalidationStableIfValuesPass ==
    (/\ call.run >= 2
     /\ NoTransforms
     /\ \A i \in Declared :
          NewlyPresent(i) => check(decls.list[i].handler, FirstRead(i)).result = True) =>
        /\ call.pc \notin {"onFail", "rejected"}
        /\ call.pc = "done" => call.returned = True
        /\ \A key \in Keys : get(call.obj, key) # Undef => get(root, key) = get(call.obj, key)

\* { c: { d: 1 } } with a declared integer().optional().default(1) and c.d
\* declared integer("int").max(2, "big"): the first call injects a = 1, the
\* second finds it present, checks it and returns true
C25_Witness ==
    /\ call.run = 2
    /\ call.pc = "done"
    /\ NoTransforms
    /\ Len(decls.list) = 2
    /\ decls.list[1] = Declaration("a", DefaultOne, FALSE, NoTransform, NoTransform)
    /\ decls.list[2].handler = RequiredInteger
    /\ NewlyPresent(1)
    /\ FirstRead(1) = Num(1)
    /\ EventsOf("rule", 1) # {}
    /\ call.returned = True

\* the value the rules of declaration i were run on
CheckedValue(i) == call.log[CHOOSE n \in EventsOf("rule", i) : TRUE].v

\* C26: with two global transformAfter functions u1, u2 and a field-level u3,
\* when the after hooks of a declaration are due, the value they are passed,
\* which is also the value in the root, is u3(u2(u1(c))) for the value c that
\* passed the rule check: each transform is applied to the result of the
\* previous one.
C26_PostTransformsCompose ==
    (/\ call.pc = "after"
     /\ Len(normalizeToArray(options.transformAfter)) = 2
     /\ Len(decls.list[call.i].transformAfter.fns) = 1) =>
        LET d == decls.list[call.i]
            expected == Composed(postTransforms(options, d), CheckedValue(call.i))
        IN  call.value = expected /\ get(root, d.key) = expected

\* C27: wherever validateRules uses the local value of a field (at the
\* presence check, as the input of the pre-transforms, at the rule check) it
\* is the value the root holds at the field's path at that moment; so when a
\* before hook has assigned the field, the rule check is run on the value it
\* assigned (the transforms being the identity or none), which is still in the
\* root.
C27_CurrentValueUsed ==
    \A i \in Declared :
        LET d == decls.list[i]
        IN  /\ (call.i = i /\ call.pc \in {"presence", "pre", "check"}) =>
                   call.value = get(root, d.key)
            /\ (call.i = i /\ call.pc = "check" /\ EventsOf("assign", i) # {}) =>
                   call.value = Assigned /\ get(root, d.key) = Assigned

\* declaration j is the last of the declarations 1..k to name its path
LastNaming(j, k) == \A l \in (j + 1)..k : decls.list[l].key # decls.list[j].key

\* C28: when validate has returned a result that is not true at declaration k
\* (one global transformBefore t, at most one transformAfter per field, literal
\* defaults), nothing was done for a later declaration; every path named by
\* none of the declarations 1..k holds its original value; every path holds
\* what was last written at it; the path of an earlier declaration, if no later
\* one up to k names it, holds u(t(v)) for the value v read, or the default
\* injected; and the path of declaration k holds t(v) for the value v read,
\* no transformAfter having run: the writes made before the failure stay.
C28_FailureNotRolledBack ==
    (call.pc = "done" /\ decls.isArray /\ call.returned # True) =>
        LET k == call.i
            t == normalizeToArray(options.transformBefore)[1]
        IN  /\ NothingAfter(k)
            /\ \A key \in Keys :
                 /\ (\A j \in 1..k : decls.list[j].key # key) =>
                       get(root, key) = get(call.obj, key)
                 /\ get(root, key) = Held(Len(call.log), key)
            /\ \A j \in 1..(k - 1) :
                 LET d == decls.list[j]
                 IN  LastNaming(j, k) =>
                        /\ FirstRead(j) # Undef =>
                              get(root, d.key) = Transformed(d, FirstRead(j))
                        /\ (FirstRead(j) = Undef /\ d.handler.m_default # Undef) =>
                              get(root, d.key) = d.handler.m_default
            /\ EventsOf("transformAfter", k) = {}
            /\ get(root, decls.list[k].key) =
                  IF FirstRead(k) = Undef THEN Undef ELSE Transform(t, FirstRead(k))

\* { a: 5 } with c.d declared integer().optional().default(null).max(2, "big"),
\* then a declared integer("int").max(2, "big"), t = v => v + 1: validate
\* returns "big" and the root is left as { a: 6, c: { d: null } }
C28_Witness ==
    /\ call.pc = "done"
    /\ call.returned = Str(<<"big">>)
    /\ call.obj = [a |-> Num(5), c |-> Undef]
    /\ Len(decls.list) = 2
    /\ call.i = 2
    /\ decls.list[1].key = "c.d"
    /\ decls.list[2].key = "a"
    /\ root = [a |-> Num(6), c |-> Map(Null)]

\* declaration i was found present and every rule of its chain returned true
PresentAndPassed(i) ==
    /\ Reached(i)
    /\ FirstRead(i) # Undef
    /\ Count("rule", i) = Len(decls.list[i].handler.rules)
    /\ \A n \in EventsOf("rule", i) : call.log[n].w = True

\* C29: for an optional field read as undefined no transformBefore, rule,
\* transformAfter or after hook runs; the only write for it is that of its
\* default, which is the default as produced (a function default applied to
\* the root as it then was) and is what the root holds when the call moves on;
\* and once the call has left a declaration, each of its after hooks has run
\* exactly once if its value was present and passed the rule check, and not
\* at all otherwise.
C29_AbsentOptionalBypassesStages ==
    \A i \in Declared :
        LET d == decls.list[i]
            x == d.handler.m_default
            after == hooksOf(d.after)
        IN  /\ AbsentOptional(i) =>
                   /\ EventsOf("transformBefore", i) = {}
                   /\ EventsOf("rule", i) = {}
                   /\ EventsOf("transformAfter", i) = {}
                   /\ EventsOf("after", i) = {}
                   /\ Cardinality(EventsOf("set", i)) <= 1
                   /\ \A n \in EventsOf("set", i) :
                        /\ call.log[n].k = 0
                        /\ call.log[n].w =
                              IF x.t = "function" THEN Held(n - 1, "a") ELSE x
                        /\ (call.i = i + 1 /\ call.pc = "loop") =>
                              get(root, d.key) = call.log[n].w
            /\ \A k \in 1..Len(after) :
                   Cardinality({n \in EventsOf("after", i) : call.log[n].k = k}) <= 1
            /\ Left(i) =>
                   Count("after", i) = IF PresentAndPassed(i) THEN Len(after) ELSE 0

\* { a: 1 } with c.d declared any().optional().default(root => root.a) and a
\* declared with its own hooks: c.d is set to 1 untransformed, the two after
\* hooks run for a only
C29_Witness ==
    /\ call.pc = "done"
    /\ call.returned = True
    /\ Len(decls.list) = 2
    /\ decls.list[1] = Declaration("c.d", DefaultFromRoot, FALSE, NoTransform, NoTransform)
    /\ decls.list[2].key = "a"
    /\ AbsentOptional(1)
    /\ options.transformBefore = One("increment")
    /\ get(root, "c.d") = Num(1)
    /\ Count("after", 1) = 0
    /\ Count("after", 2) = 2

\* the invocations of the global before hook in the call
GlobalBefore == {n \in AllEvents("before") : call.log[n].k = 1}

\* C30: each before hook of a declaration runs at most once, all of them have
\* run once the call is past the before stage of a declaration it reached,
\* absent optional fields and the failing declaration included, and they
\* precede every later step of that declaration; when validateRules has
\* returned, the global before hook has been invoked as many times as the
\* index of the failing declaration, or as there are declarations when the
\* result is true.
C30_BeforeHooksOncePerReached ==
    /\ \A i \in Declared :
           LET before == hooksOf(decls.list[i].before)
           IN  /\ \A k \in 1..Len(before) :
                      Cardinality({n \in EventsOf("before", i) : call.log[n].k = k}) <= 1
               /\ (Reached(i) /\ ~(call.i = i /\ call.pc = "before")) =>
                      Count("before", i) = Len(before)
               /\ ~Reached(i) => Count("before", i) = 0
               /\ \A n \in EventsOf("before", i) :
                      \A m \in 1..Len(call.log) :
                          (call.log[m].i = i /\ call.log[m].e \notin {"get", "before"})
                              => n < m
    /\ (call.pc = "done" /\ decls.isArray) =>
           Cardinality(GlobalBefore) =
               IF call.returned = True THEN Len(decls.list)
               ELSE call.log[Len(call.log)].i

\* {}, a optional without a default and absent, then c.d required and missing,
\* declared with its own hooks: the global before hook ran for both, the
\* field's own hook for c.d, and the call failed at the second declaration
C30_Witness ==
    /\ call.pc = "done"
    /\ call.returned = False
    /\ Len(decls.list) = 2
    /\ decls.list[2].key = "c.d"
    /\ decls.list[1].handler = OptionalNumber
    /\ AbsentOptional(1)
    /\ decls.list[2].before
    /\ Count("before", 1) = 1
    /\ Count("before", 2) = 2
    /\ Cardinality(GlobalBefore) = 2

\* the value of declaration i as its transforms have left it so far: what the
\* last of them wrote, or the value read when none has written yet
LeftByTransforms(i) ==
    LET writes == EventsOf("set", i)
    IN  IF writes = {} THEN FirstRead(i)
        ELSE call.log[CHOOSE n \in writes : \A m \in writes : m <= n].w

\* the hooks of stage e of declaration i: the global one ran before the
\* field's own, hook k ran only after hook k - 1, and once the stage is through
\* the global hook has run and, for a field with a hook of its own, that one
\* too
HooksAugment(e, i, own) ==
    LET hooks == hooksOf(own)
        ran == {call.log[n].k : n \in EventsOf(e, i)}
    IN  /\ \A n, m \in EventsOf(e, i) :
               (hooks[call.log[n].k] = "global" /\ hooks[call.log[m].k] = "field")
                   => n < m
        /\ \A k \in ran : k > 1 => k - 1 \in ran
        /\ (Left(i) /\ ran # {}) =>
               /\ Count(e, i) = IF own THEN 2 ELSE 1
               /\ \E n \in EventsOf(e, i) : hooks[call.log[n].k] = "global"
               /\ own => \E n \in EventsOf(e, i) : hooks[call.log[n].k] = "field"

\* C31: a field's own hook is run in addition to the global one and after it;
\* every before hook of a declaration receives the value read from the root at
\* the loop head and runs before any transform of the declaration; every after
\* hook receives the value the post-transforms left at the field and runs
\* after all of them.
C31_FieldHooksAfterGlobal ==
    \A i \in Declared :
        LET d == decls.list[i]
        IN  /\ HooksAugment("before", i, d.before)
            /\ HooksAugment("after", i, d.after)
            /\ \A n \in EventsOf("before", i) :
                   /\ call.log[n].v = FirstRead(i)
                   /\ \A m \in EventsOf("set", i) : n < m
            /\ \A n \in EventsOf("after", i) :
                   /\ call.log[n].v = LeftByTransforms(i)
                   /\ call.log[n].v = Held(n, d.key)
                   /\ Count("transformAfter", i) = Len(postTransforms(options, d))
                   /\ \A m \in EventsOf("transformAfter", i) : m < n

\* { a: 1 } with a declared with its own hooks, double before and increment
\* after: both before hooks got 1, both after hooks got 3, the value the
\* post-transforms left
C31_Witness ==
    /\ call.pc = "done"
    /\ call.returned = True
    /\ Len(decls.list) = 1
    /\ decls.list[1].key = "a"
    /\ decls.list[1].before
    /\ decls.list[1].after
    /\ Count("before", 1) = 2
    /\ Count("after", 1) = 2
    /\ FirstRead(1) = Num(1)
    /\ \A n \in EventsOf("after", 1) : call.log[n].v = Num(3)

\* the invocations of the default of declaration i: getDefault is called where
\* the default is written
DefaultInvocations(i) == {n \in EventsOf("set", i) : call.log[n].k = 0}

\* C32: in every validate call, a default given as a function is invoked for a
\* declaration at most once, only when the declaration was reached with its
\* field undefined and its chain optional, and then exactly once by the time
\* the call has left the declaration; its result is the function applied to
\* the root as the writes of the call so far have left it, also in a second
\* call on the same root.
C32_DefaultFunctionOncePerCall ==
    \A i \in Declared :
        LET d == decls.list[i]
            x == d.handler.m_default
            inv == DefaultInvocations(i)
        IN  x.t = "function" =>
                /\ Cardinality(inv) <= 1
                /\ inv # {} => AbsentOptional(i)
                /\ (AbsentOptional(i) /\ Left(i)) => Cardinality(inv) = 1
                /\ \A n \in inv :
                       call.log[n].w =
                           DefaultFunction(x, [root EXCEPT !["a"] = Held(n - 1, "a")])

\* {} with c.d declared any().optional().default(root => root.a) and then a
\* declared integer().optional().default(1): the first call invokes the
\* function with a absent and gets undefined, the second call invokes it again
\* and gets 1
C32_Witness ==
    /\ call.run = 2
    /\ call.pc = "done"
    /\ Len(decls.list) = 2
    /\ decls.list[1] = Declaration("c.d", DefaultFromRoot, FALSE, NoTransform, NoTransform)
    /\ decls.list[2] = Declaration("a", DefaultOne, FALSE, NoTransform, NoTransform)
    /\ \E n \in 1..Len(call.earlier) :
           /\ call.earlier[n] = Event("set", 1, 0, Undef, Undef)
    /\ \E n \in DefaultInvocations(1) : call.log[n].w = Num(1)

\* the event a step leaves in the log when the function it awaits has settled
EventOf(pc) ==
    CASE pc = "pre" -> "transformBefore"
      [] pc = "post" -> "transformAfter"
      [] pc = "check" -> "rule"
      [] OTHER -> pc

\* the step s of call c has settled: the call has gone on and logged it
Resumed(c, s) ==
    \E n \in 1..Len(c.log) :
        /\ c.log[n].e = EventOf(s[1])
        /\ c.log[n].i = s[2]
        /\ s[3] # 0 => c.log[n].k = s[3]

\* the steps of call c that have been begun and have not settled
InFlight(c, begun) == {s \in begun : ~Resumed(c, s)}

\* every hook, transformer and rule check call c has been through was begun
AllBegun(c, begun) ==
    \A n \in 1..Len(c.log) :
        c.log[n].e \in {"before", "transformBefore", "rule", "transformAfter",
                         "after", "onFail", "onDefault", "onSuccess"}
            => \E s \in begun : /\ c.log[n].e = EventOf(s[1])
                                 /\ c.log[n].i = s[2]
                                 /\ s[3] # 0 => c.log[n].k = s[3]

\* C33: in each of the two calls at most one hook, transformer or rule check
\* has been called and has not settled, it is the one the call is at, and no
\* step was gone through without having been begun.
C33_OneStepInFlight ==
    /\ \A s \in InFlight(call, peer.begun[peer.id]) : s = StepOf(call)
    /\ \A s \in InFlight(peer.call, peer.begun[3 - peer.id]) : s = StepOf(peer.call)
    /\ Cardinality(InFlight(call, peer.begun[peer.id])) <= 1
    /\ Cardinality(InFlight(peer.call, peer.begun[3 - peer.id])) <= 1
    /\ AllBegun(call, peer.begun[peer.id])
    /\ AllBegun(peer.call, peer.begun[3 - peer.id])

\* both calls are suspended, one in its second before hook and one in a
\* transformBefore function, after the running one went through a whole rule
\* check
C33_Witness ==
    /\ InFlight(call, peer.begun[peer.id]) = {<<"pre", 2, 1>>}
    /\ InFlight(peer.call, peer.begun[3 - peer.id]) = {<<"before", 1, 2>>}
    /\ Count("rule", 1) > 0

\* what call number n was given as its root
GivenRoot(n) == IF peer.id = n THEN call.obj ELSE peer.call.obj

\* C34: with two roots, when either call has returned, its result and its
\* events are those of validateRules run alone on the root it was given, and
\* its root is as that run leaves it, however the two calls were interleaved.
C34_DistinctRootsIndependent ==
    ~peer.shared =>
        /\ call.pc = "done" =>
               LET alone == validateRules(Idle, call.obj)
               IN  /\ call.returned = alone.call.returned
                   /\ call.log = alone.call.log
                   /\ root = alone.root
        /\ peer.call.pc = "done" =>
               LET alone == validateRules(Idle, peer.call.obj)
               IN  /\ peer.call.returned = alone.call.returned
                   /\ peer.call.log = alone.call.log
                   /\ peer.root = alone.root

\* { a: 1 } and {} validated with the same two declarations and a global
\* increment, the calls taking turns: the first fails with "big" at its second
\* declaration, the second fails at the first, each as when run alone
C34_Witness ==
    /\ ~peer.shared
    /\ peer.overlapped
    /\ call.pc = "done"
    /\ peer.call.pc = "done"
    /\ Len(decls.list) = 2
    /\ options.transformBefore = One("increment")
    /\ {call.returned, peer.call.returned} = {Str(<<"big">>), False}
    /\ {root, peer.root} = {[a |-> Num(3), c |-> Undef], [a |-> Undef, c |-> Undef]}

\* the two calls made one after the other on the root r: the results, first
\* call first, and the root they leave
Serial(r) ==
    LET first == validateRules(Idle, r)
        second == validateRules(Idle, first.root)
    IN  [results |-> <<first.call.returned, second.call.returned>>,
         root |-> second.root]

\* the result of call number n
ResultOf(n) == IF peer.id = n THEN call.returned ELSE peer.call.returned

\* both calls on the shared root have returned, and their results or the root
\* are not those of the calls made one after the other, in either order
Raced ==
    /\ peer.shared
    /\ call.pc = "done"
    /\ peer.call.pc = "done"
    /\ LET serial == Serial(GivenRoot(1))
       IN  \/ root # serial.root
           \/ <<ResultOf(1), ResultOf(2)>> \notin
                  {serial.results, <<serial.results[2], serial.results[1]>>}

\* C35: two calls on one shared root end with results or a root that no serial
\* order gives only if one call was suspended at an await, unfinished, while
\* the other ran; two calls of which the first returned before the second
\* started give the serial outcome.
C35_RaceNeedsInterleaving ==
    Raced => peer.overlapped

\* { a: 1 } with a declared integer().max(2, "big") and a global increment:
\* both calls read 1 before either writes, both write 2 and return true,
\* where one after the other they leave 3 and the second returns "big"
C35_Witness ==
    /\ Raced
    /\ Len(decls.list) = 1
    /\ GivenRoot(1) = [a |-> Num(1), c |-> Undef]
    /\ options.transformBefore = One("increment")
    /\ ResultOf(1) = True
    /\ ResultOf(2) = True
    /\ root = [a |-> Num(2), c |-> Undef]
    /\ \E n \in 1..Len(call.log) :
           call.log[n] = Event("transformBefore", 1, 1, Num(1), Num(2))
    /\ \E n \in 1..Len(peer.call.log) :
           peer.call.log[n] = Event("transformBefore", 1, 1, Num(1), Num(2))
    /\ Serial(GivenRoot(1)).results = <<True, Str(<<"big">>)>>
    /\ Serial(GivenRoot(1)).root = [a |-> Num(3), c |-> Undef]

\* the type checks the constructors push
TypeChecks ==
    {"isString", "isBoolean", "isNumber", "isArray", "isObject", "isDefined"}

\* a call recorded on a chain is one of a constraint builder
IsBuilderCall(c) == c.m \notin {"optional", "default"}

\* C36: the rules of a chain are those its constructor pushed, a type check
\* first, followed by exactly one rule for each constraint builder called on
\* it, reached through of or not, in the order of the calls, each holding the
\* argument and the payload of its call; optional() and default() have added
\* none, the flag and the default are what those calls last set; and a chain
\* that has been checked is as it was: checking the same value again gives
\* the same result from the same rules.
C36_ChainAppendOnly ==
    LET made == IF handler.class \in {"FjordInteger", "FjordFloat"} THEN 2 ELSE 1
        later == Tail(handler.calls)
        builders == SelectSeq(later, IsBuilderCall)
        defaults == {n \in 1..Len(later) : later[n].m = "default"}
    IN  /\ handler.rules[1].op \in TypeChecks
        /\ Len(handler.rules) = made + Len(builders)
        /\ \A j \in 1..Len(builders) :
               /\ handler.rules[made + j].arg = builders[j].arg
               /\ handler.rules[made + j].err =
                      IF builders[j].m = "custom" THEN Undef ELSE builders[j].err
        /\ handler.m_optional <=> \E n \in 1..Len(later) : later[n].m = "optional"
        /\ handler.m_default =
               IF defaults = {} THEN Undef
               ELSE later[CHOOSE n \in defaults : \A m \in defaults : m <= n].arg
        /\ checked.done =>
               /\ checked.result = check(handler, checked.value).result
               /\ checked.evaluated = check(handler, checked.value).evaluated

\* integer("e").max(1, "e") checked against 5: three rules, the two the
\* constructor pushed and after them the one of max, which failed
C36_Witness ==
    /\ handler.class = "FjordInteger"
    /\ Len(handler.calls) = 2
    /\ handler.calls[2].m = "max"
    /\ Len(handler.rules) = 3
    /\ handler.rules[1].op = "isNumber"
    /\ handler.rules[2].op = "isInteger"
    /\ handler.rules[3].op = ConditionOf("FjordInteger", "max")
    /\ checked.done
    /\ checked.value = Num(5)
    /\ checked.result = Str(<<"e">>)

\* C37: every onDefault invocation comes right after the write of the default
\* of its declaration, when the root already holds the default at the field's
\* path; it is handed undefined, the value read for the field, not the
\* default; and every step of a later declaration, its read included, comes
\* after it.
C37_OnDefaultAfterWrite ==
    \A i \in Declared :
        \A n \in EventsOf("onDefault", i) :
            /\ n > 1
            /\ call.log[n - 1].e = "set"
            /\ call.log[n - 1].i = i
            /\ call.log[n - 1].k = 0
            /\ Held(n, decls.list[i].key) = call.log[n - 1].w
            /\ call.log[n].v = Undef
            /\ call.log[n].v = FirstRead(i)
            /\ \A m \in 1..Len(call.log) : call.log[m].i > i => n < m

\* {} with a declared integer().optional().default(null).max(2, "big") and
\* then c.d: null is written at a, onDefault is handed undefined, and only
\* then c.d is read
C37_Witness ==
    /\ Len(decls.list) = 2
    /\ decls.list[1] = Declaration("a", OptionalInteger, FALSE, NoTransform, NoTransform)
    /\ decls.list[2].key = "c.d"
    /\ Len(call.log) >= 5
    /\ call.log[3] = Event("set", 1, 0, Undef, Null)
    /\ call.log[4] = Event("onDefault", 1, 1, Undef, Undef)
    /\ call.log[5].e = "get"
    /\ call.log[5].i = 2
    /\ get(root, "a") = Null

\* the calls the adapter made of the function f
CallsOf(f) == {n \in 1..Len(io.calls) : io.calls[n].f = f}

\* C38: when the function connect(rules) returned has settled, it has called
\* next exactly once, whether validation succeeded, failed or threw and
\* whether next returned, threw or returned a rejected promise.
C38_ConnectNextOnce ==
    (io.adapter = "connect" /\ io.pc = "settled") =>
        Cardinality(CallsOf("next")) = 1

\* C39: when the function graphql(rules, cb) returned has settled, the
\* resolver was called at most once and only after validate returned true;
\* the promise is rejected with SERVER_ERROR exactly when validate threw and
\* with BAD_REQUEST exactly when validate returned something other than true;
\* and what a called resolver throws or rejects with is what the promise is
\* rejected with.
C39_ResolverErrorPassesThrough ==
    (io.adapter = "graphql" /\ io.pc = "settled") =>
        /\ Cardinality(CallsOf("resolver")) <= 1
        /\ CallsOf("resolver") # {} <=> (call.pc = "done" /\ call.returned = True)
        /\ (io.outcome = "rejected" /\ io.value = Error("SERVER_ERROR"))
               <=> call.pc = "rejected"
        /\ (io.outcome = "rejected" /\ io.value = Error("BAD_REQUEST"))
               <=> (call.pc = "done" /\ call.returned # True)
        /\ (CallsOf("resolver") # {} /\ io.next \in {"throws", "rejects"}) =>
               (io.outcome = "rejected" /\ io.value = Error("resolver"))
        /\ (CallsOf("resolver") # {} /\ io.next = "returns") =>
               (io.outcome = "resolved" /\ io.value = Resolved)

\* validation of { a: 1 } succeeded and the resolver threw: the caller gets
\* the resolver's error, after one call of the resolver
C39_Witness ==
    /\ io.adapter = "graphql"
    /\ io.pc = "settled"
    /\ io.next = "throws"
    /\ call.returned = True
    /\ Len(decls.list) > 0
    /\ Cardinality(CallsOf("resolver")) = 1
    /\ io.outcome = "rejected"
    /\ io.value = Error("resolver")

====
